---- MODULE Spec2Model ----
(***************************************************************************)
(* Model of the equilibrium solver of rope-rigging (PhysicsEngine.ts) and  *)
(* of the calls made to it.                                                *)
(*                                                                         *)
(* Numbers.  The solver computes with JavaScript numbers (IEEE-754         *)
(* binary64).  A number is modelled as a record                            *)
(*     [t |-> "num", s |-> sign, m |-> mantissa, e |-> exponent]           *)
(* of value s * m * 2^e, where the mantissa is an integer of exactly 53    *)
(* bits held as four 14-bit limbs (least significant first), or as zero,   *)
(* or as one of the special values NaN, +Infinity, -Infinity.  Every       *)
(* operation computes the exact result and rounds it to nearest, ties to   *)
(* even, as the hardware does.  The exponent is unbounded: overflow to     *)
(* Infinity and gradual underflow do not occur for the magnitudes of the   *)
(* inputs used here.  The sign of a zero is not kept.                      *)
(*                                                                         *)
(* An intermediate result is passed on as the argument of the operator     *)
(* that continues the computation, and After evaluates it before that      *)
(* operator starts, so that values are computed in the program's order.    *)
(***************************************************************************)
EXTENDS Integers, Sequences, FiniteSets, TLC

----------------------------------------------------------------------------
(* Wide naturals: eight 14-bit limbs, least significant first.              *)

Base == 128 * 128

BZero == <<0, 0, 0, 0, 0, 0, 0, 0>>

Widen(m) == m \o <<0, 0, 0, 0>>

SetMax(S) == CHOOSE x \in S : \A y \in S : y <= x

SetMin(S) == CHOOSE x \in S : \A y \in S : x <= y

\* e, with x (a value, or a tuple of values in the order of their computation)
\* evaluated first
After(x, e) == CASE x = x -> e

\* the limbs from limb i on of the natural whose column sums are col (a column
\* may exceed a limb or, in a subtraction, be negative), c carried into limb i
RECURSIVE BCarryFrom(_, _, _, _)
BCarryFrom(col, i, c, out) ==
    IF i > 8 \/ c + Len(out) < -1 THEN out
    ELSE BCarryFrom(col, i + 1, (col[i] + c) \div Base, Append(out, (col[i] + c) % Base))

BCarry(col) == BCarryFrom(col, 1, 0, <<>>)

BAdd(a, b) ==
    BCarry(<<a[1] + b[1], a[2] + b[2], a[3] + b[3], a[4] + b[4],
             a[5] + b[5], a[6] + b[6], a[7] + b[7], a[8] + b[8]>>)

\* a - b for a >= b
BSub(a, b) ==
    BCarry(<<a[1] - b[1], a[2] - b[2], a[3] - b[3], a[4] - b[4],
             a[5] - b[5], a[6] - b[6], a[7] - b[7], a[8] - b[8]>>)

\* the limbs in which a and b differ
BDiff(a, b) == {i \in 1..8 : a[i] # b[i]}

BCmpIn(a, b, D) ==
    IF D = {} THEN 0 ELSE IF a[SetMax(D)] > b[SetMax(D)] THEN 1 ELSE -1

\* -1, 0 or 1 as a < b, a = b, a > b
BCmp(a, b) == BCmpIn(a, b, BDiff(a, b))

\* limb i of a * 2^(14 q) * p, for p a power of two below Base
BShlLimbAt(a, q, p, i) ==
    (IF i - q \in 1..8 THEN (a[i - q] * p) % Base ELSE 0)
    + (IF i - q - 1 \in 1..8 THEN (a[i - q - 1] * p) \div Base ELSE 0)

BShlBy(a, q, p) ==
    <<BShlLimbAt(a, q, p, 1), BShlLimbAt(a, q, p, 2), BShlLimbAt(a, q, p, 3),
      BShlLimbAt(a, q, p, 4), BShlLimbAt(a, q, p, 5), BShlLimbAt(a, q, p, 6),
      BShlLimbAt(a, q, p, 7), BShlLimbAt(a, q, p, 8)>>

\* a * 2^k, the bits above the eighth limb dropped
BShl(a, k) == BShlBy(a, k \div 14, 2 ^ (k % 14))

\* limb i of floor(a / (2^(14 q) * p)), for p a power of two below Base and
\* c = Base / p
BShrLimbAt(a, q, p, c, i) ==
    (IF i + q \in 1..8 THEN a[i + q] \div p ELSE 0)
    + (IF i + q + 1 \in 1..8 THEN (a[i + q + 1] % p) * c ELSE 0)

BShrBy(a, q, p, c) ==
    <<BShrLimbAt(a, q, p, c, 1), BShrLimbAt(a, q, p, c, 2), BShrLimbAt(a, q, p, c, 3),
      BShrLimbAt(a, q, p, c, 4), BShrLimbAt(a, q, p, c, 5), BShrLimbAt(a, q, p, c, 6),
      BShrLimbAt(a, q, p, c, 7), BShrLimbAt(a, q, p, c, 8)>>

\* floor(a / 2^k)
BShr(a, k) == BShrBy(a, k \div 14, 2 ^ (k % 14), 2 ^ (14 - (k % 14)))

\* bit k (0 = least significant) of a
BBit(a, k) ==
    IF k \div 14 + 1 > 8 THEN 0 ELSE (a[k \div 14 + 1] \div (2 ^ (k % 14))) % 2

\* some bit below bit k of a is set
BSticky(a, k) ==
    \/ \E i \in 1..8 : i <= k \div 14 /\ a[i] # 0
    \/ (k \div 14 + 1 <= 8 /\ a[k \div 14 + 1] % (2 ^ (k % 14)) # 0)

LimbLen(x) == IF x = 0 THEN 0 ELSE SetMax({b \in 1..14 : 2 ^ (b - 1) <= x})

\* the limbs of a that are not zero
BNonZero(a) == {i \in 1..8 : a[i] # 0}

BitLenIn(a, D) ==
    IF D = {} THEN 0 ELSE (SetMax(D) - 1) * 14 + LimbLen(a[SetMax(D)])

\* number of significant bits of a
BitLen(a) == BitLenIn(a, BNonZero(a))

\* product of two four-limb naturals
BMul4(a, b) ==
    BCarry(<< a[1] * b[1],
              a[1] * b[2] + a[2] * b[1],
              a[1] * b[3] + a[2] * b[2] + a[3] * b[1],
              a[1] * b[4] + a[2] * b[3] + a[3] * b[2] + a[4] * b[1],
              a[2] * b[4] + a[3] * b[3] + a[4] * b[2],
              a[3] * b[4] + a[4] * b[3],
              a[4] * b[4],
              0 >>)

BMulSmall(a, k) ==
    BCarry(<<a[1] * k, a[2] * k, a[3] * k, a[4] * k,
             a[5] * k, a[6] * k, a[7] * k, a[8] * k>>)

BShlLimb(a) == <<0, a[1], a[2], a[3], a[4], a[5], a[6], a[7]>>

BOfNat(n) == <<n % Base, (n \div Base) % Base, n \div (Base * Base), 0, 0, 0, 0, 0>>

----------------------------------------------------------------------------
(* binary64 numbers.                                                        *)

MZero == <<0, 0, 0, 0>>

NaN == [t |-> "nan", s |-> 0, m |-> MZero, e |-> 0]

Inf(sg) == [t |-> "inf", s |-> sg, m |-> MZero, e |-> 0]

FZero == [t |-> "num", s |-> 0, m |-> MZero, e |-> 0]

Low4(a) == <<a[1], a[2], a[3], a[4]>>

Num(sg, m4, ex) == [t |-> "num", s |-> sg, m |-> m4, e |-> ex]

\* q1 is the rounded mantissa, of 53 bits or, after a carry, of 54
RoundCarry(sg, q1, ex) ==
    IF BitLen(q1) = 54 THEN Num(sg, Low4(BShr(q1, 1)), ex + 1)
    ELSE Num(sg, Low4(q1), ex)

\* q is big without its sh lowest bits, which decide the rounding
RoundCut(sg, big, ex, sh, q) ==
    RoundCarry(sg,
               IF BBit(big, sh - 1) = 1 /\ (BSticky(big, sh - 1) \/ q[1] % 2 = 1)
               THEN BAdd(q, BOfNat(1)) ELSE q,
               ex + sh)

RoundLen(sg, big, ex, len) ==
    IF len = 0 \/ sg = 0 THEN FZero
    ELSE IF len <= 53 THEN Num(sg, Low4(BShl(big, 53 - len)), ex - (53 - len))
    ELSE RoundCut(sg, big, ex, len - 53, BShr(big, len - 53))

\* sg * big * 2^ex rounded to 53 bits, to nearest, ties to even
Round(sg, big, ex) == After(big, RoundLen(sg, big, ex, BitLen(big)))

Abs(n) == IF n < 0 THEN -n ELSE n

Sign(n) == IF n < 0 THEN -1 ELSE IF n > 0 THEN 1 ELSE 0

\* the number n, an integer of the model
FromInt(n) == Round(Sign(n), BOfNat(Abs(n)), 0)

FNeg(x) == [x EXCEPT !.s = -x.s]

FAbs(x) == [x EXCEPT !.s = Abs(x.s)]

IsNaN(x) == x.t = "nan"

IsFinite(x) == x.t = "num"

\* magnitudes of two finite non-zero numbers compared: -1, 0, 1
MagCmp(x, y) ==
    IF x.e # y.e THEN (IF x.e > y.e THEN 1 ELSE -1)
    ELSE BCmp(Widen(x.m), Widen(y.m))

\* -1, 0, 1 as x < y, x = y, x > y, for x and y not NaN
FCmp(x, y) ==
    IF x.t = "inf" /\ y.t = "inf" THEN Sign(x.s - y.s)
    ELSE IF x.t = "inf" THEN x.s
    ELSE IF y.t = "inf" THEN -y.s
    ELSE IF x.s # y.s THEN Sign(x.s - y.s)
    ELSE IF x.s = 0 THEN 0
    ELSE x.s * MagCmp(x, y)

FLt(x, y) == ~IsNaN(x) /\ ~IsNaN(y) /\ FCmp(x, y) < 0

FGt(x, y) == ~IsNaN(x) /\ ~IsNaN(y) /\ FCmp(x, y) > 0

FLe(x, y) == ~IsNaN(x) /\ ~IsNaN(y) /\ FCmp(x, y) <= 0

FGe(x, y) == ~IsNaN(x) /\ ~IsNaN(y) /\ FCmp(x, y) >= 0

\* the signs differ: the smaller magnitude is taken from the larger
SubWide(x, y, a, b, c) ==
    IF c = 0 THEN FZero
    ELSE IF c > 0 THEN Round(x.s, BSub(a, b), y.e)
    ELSE Round(y.s, BSub(b, a), y.e)

\* a and b are the mantissas of x and y at the exponent of y
AddWide(x, y, a, b) ==
    IF x.s = y.s THEN Round(x.s, BAdd(a, b), y.e)
    ELSE SubWide(x, y, a, b, BCmp(a, b))

\* x + y for finite non-zero x, y with x.e >= y.e
AddAligned(x, y) ==
    IF x.e - y.e > 56 THEN x
    ELSE AddWide(x, y, BShl(Widen(x.m), x.e - y.e), Widen(y.m))

FAdd(x, y) ==
    IF IsNaN(x) \/ IsNaN(y) THEN NaN
    ELSE IF x.t = "inf" THEN (IF y.t = "inf" /\ y.s # x.s THEN NaN ELSE x)
    ELSE IF y.t = "inf" THEN y
    ELSE IF x.s = 0 THEN y
    ELSE IF y.s = 0 THEN x
    ELSE IF x.e >= y.e THEN AddAligned(x, y) ELSE AddAligned(y, x)

FSub(x, y) == FAdd(x, FNeg(y))

FMul(x, y) ==
    IF IsNaN(x) \/ IsNaN(y) THEN NaN
    ELSE IF x.t = "inf" \/ y.t = "inf"
    THEN (IF x.s * y.s = 0 THEN NaN ELSE Inf(x.s * y.s))
    ELSE IF x.s = 0 \/ y.s = 0 THEN FZero
    ELSE Round(x.s * y.s, BMul4(x.m, y.m), x.e + y.e)

\* the largest q <= qh with q * d <= r
RECURSIVE QFix(_, _, _)
QFix(r, d, qh) ==
    IF BCmp(BMulSmall(d, qh), r) > 0 THEN QFix(r, d, qh - 1) ELSE qh

\* the quotient of the two leading limbs of r by the leading limb of d
DivEstimate(r, d) == (r[5] * Base + r[4]) \div d[4]

DivTake(r, d, q) == <<q, BSub(r, BMulSmall(d, q))>>

\* one step of schoolbook division in base 2^14: <<floor(r / d), r mod d>> for
\* r < d * Base and a divisor d of four limbs whose top limb is >= Base / 2,
\* so that the estimate from the leading limbs is at most 2 too large
DivStep(r, d) ==
    DivTake(r, d, QFix(r, d, IF DivEstimate(r, d) > Base - 1 THEN Base - 1
                             ELSE DivEstimate(r, d)))

\* k more limbs of the quotient, r the remainder so far and digits the limbs
\* so far, least significant first
RECURSIVE DivDigits(_, _, _, _)
RECURSIVE DivNext(_, _, _, _)
DivDigits(dn, r, digits, k) ==
    IF k = 0 THEN << digits \o <<0, 0, 0>>, r # BZero >>
    ELSE DivNext(dn, digits, k, DivStep(BShlLimb(r), dn))

DivNext(dn, digits, k, step) ==
    After(step, DivDigits(dn, step[2], <<step[1]>> \o digits, k - 1))

\* an and dn are dividend and divisor, both shifted so that the top limb of dn
\* is >= Base / 2
DivNorm(an, dn) ==
    IF BCmp(an, dn) >= 0 THEN DivDigits(dn, BSub(an, dn), <<1>>, 4)
    ELSE DivDigits(dn, an, <<0>>, 4)

\* <<floor(a * Base^4 / d), rest # 0>> for 53-bit a and d
DivLimbs(a, d) == DivNorm(BShl(Widen(a), 3), BShl(Widen(d), 3))

\* qr is the quotient of the mantissas and whether a rest remains, which is
\* kept as a sticky bit below the quotient
DivRound(x, y, qr) ==
    Round(x.s * y.s, BAdd(BShl(qr[1], 1), BOfNat(IF qr[2] THEN 1 ELSE 0)),
          x.e - y.e - 57)

FDiv(x, y) ==
    IF IsNaN(x) \/ IsNaN(y) THEN NaN
    ELSE IF x.t = "inf" THEN (IF y.t = "inf" THEN NaN
                              ELSE Inf(IF y.s < 0 THEN -x.s ELSE x.s))
    ELSE IF y.t = "inf" THEN FZero
    ELSE IF y.s = 0 THEN (IF x.s = 0 THEN NaN ELSE Inf(x.s))
    ELSE IF x.s = 0 THEN FZero
    ELSE DivRound(x, y, DivLimbs(x.m, y.m))

\* floor(sqrt(n)) for a natural n < 2^22, found in the block of 64 candidates
\* that starts at 64 h
ISqrtIn(n, h) == SetMax({r \in (64 * h)..(64 * h + 63) : r * r <= n})

ISqrt(n) == ISqrtIn(n, SetMax({h \in 0..32 : (64 * h) * (64 * h) <= n}))

\* a first iterate not below the root, from top > the root of the two leading
\* limbs of the radicand
SqrtStart(top) ==
    IF top >= 2048 THEN BSub(BShl(BOfNat(1), 53), BOfNat(1))
    ELSE BShl(BOfNat(top), 42)

\* floor(sqrt(m * 2^k)) by Newton's iteration from sq >= the root, for a 53-bit
\* m and k in {52, 53}: the iterates decrease until the root is reached
RECURSIVE NewtonSqrt(_, _, _)
RECURSIVE NewtonStep(_, _, _, _)
NewtonSqrt(m, k, sq) ==
    NewtonStep(m, k, sq, BShr(BAdd(sq, BShr(DivLimbs(m, Low4(sq))[1], 56 - k)), 1))

NewtonStep(m, k, sq, nxt) ==
    IF BCmp(nxt, sq) >= 0 THEN sq ELSE NewtonSqrt(m, k, nxt)

\* fl is the floor of the root of rad = x.m * 2^k: the root is rounded up when
\* rad > (fl + 1/2)^2
SqrtRound(x, k, rad, fl) ==
    Round(1,
          IF BCmp(rad, BAdd(BMul4(Low4(fl), Low4(fl)), fl)) > 0
          THEN BAdd(fl, BOfNat(1)) ELSE fl,
          (x.e - k) \div 2)

SqrtOf(x, k, rad) ==
    SqrtRound(x, k, rad,
              NewtonSqrt(x.m, k, SqrtStart(ISqrt(rad[8] * Base + rad[7]) + 1)))

\* Math.sqrt: the square root, correctly rounded; the exponent is made even
SqrtEven(x, k) == SqrtOf(x, k, BShl(Widen(x.m), k))

FSqrt(x) ==
    IF IsNaN(x) \/ x.s < 0 THEN NaN
    ELSE IF x.t = "inf" \/ x.s = 0 THEN x
    ELSE SqrtEven(x, IF x.e % 2 = 0 THEN 52 ELSE 53)

FOne == FromInt(1)

\* Math.max(0, x)
FMax0(x) == IF IsNaN(x) THEN NaN ELSE IF FGt(x, FZero) THEN x ELSE FZero

\* x || 0 : NaN and 0 are falsy
OrZero(x) == IF IsNaN(x) THEN FZero ELSE x

\* the tuple <<seqFn(seqFrom), ..., seqFn(seqTo)>>
SeqOf(seqFn(_), seqFrom, seqTo) ==
    [seqAt \in 1..(seqTo - seqFrom + 1) |-> seqFn(seqFrom + seqAt - 1)] \o <<>>

----------------------------------------------------------------------------
(* Vector2: a pair of numbers.                                              *)

VZero == <<FZero, FZero>>

VAdd(a, b) == <<FAdd(a[1], b[1]), FAdd(a[2], b[2])>>

VSub(a, b) == <<FSub(a[1], b[1]), FSub(a[2], b[2])>>

VScale(a, k) == <<FMul(a[1], k), FMul(a[2], k)>>

VLength(a) == FSqrt(FAdd(FMul(a[1], a[1]), FMul(a[2], a[2])))

VDivide(a, len) ==
    After(len, IF len = FZero THEN VZero ELSE <<FDiv(a[1], len), FDiv(a[2], len)>>)

\* the unit vector of a; the zero vector for a of length 0
VNormalize(a) == After(a, VDivide(a, VLength(a)))

----------------------------------------------------------------------------
(* The rigging graph.  A node is [id, type, position], position a pair of  *)
(* integer coordinates; a segment is [id, nodeAId, nodeBId]; a rope is     *)
(* [id, segmentIds].                                                        *)

NodeTypes == {"ANCHOR", "FREE", "LOAD", "PULLEY_FREE", "PULLEY_ANCHOR"}

Position(node) == <<FromInt(node.position[1]), FromInt(node.position[2])>>

\* n.type !== 'ANCHOR' && n.type !== 'PULLEY_ANCHOR'
IsFree(node) == node.type # "ANCHOR" /\ node.type # "PULLEY_ANCHOR"

LastOf(I) == IF I = {} THEN 0 ELSE SetMax(I)

\* segmentIndexMap.get(id): the index (from 1) of the last segment of that id,
\* 0 when there is none
SegmentIndex(segments, id) == LastOf({i \in 1..Len(segments) : segments[i].id = id})

\* nodes.find(n => n.id === id), for an id that names a node
FindNode(nodes, id) == nodes[SetMin({i \in 1..Len(nodes) : nodes[i].id = id})]

Incident(seg, node) == seg.nodeAId = node.id \/ seg.nodeBId = node.id

OtherNodeId(seg, node) == IF seg.nodeAId = node.id THEN seg.nodeBId ELSE seg.nodeAId

\* otherNode.position.sub(node.position).normalize()
Direction(nodes, node, seg) ==
    VNormalize(VSub(Position(FindNode(nodes, OtherNodeId(seg, node))), Position(node)))

\* the directions from node along every segment (the zero vector for a segment
\* that is not incident to it)
Directions(nodes, segments, node) ==
    SeqOf(LAMBDA k : IF Incident(segments[k], node)
                     THEN Direction(nodes, node, segments[k]) ELSE VZero,
          1, Len(segments))

\* numRopeEq
RECURSIVE NumRopeEq(_, _)
NumRopeEq(ropes, i) ==
    IF i > Len(ropes) THEN 0
    ELSE (IF Len(ropes[i].segmentIds) - 1 > 0 THEN Len(ropes[i].segmentIds) - 1 ELSE 0)
         + NumRopeEq(ropes, i + 1)

Weight1000 == FromInt(1000)

----------------------------------------------------------------------------
(* Assembly of the linear system.  An equation is [a, b, w]: the row of     *)
(* coefficients, the right-hand side and the weight.                         *)

\* externalForceY
\* for comparison: a load that hangs at LOAD nodes only
ExternalForceAtLoad(node, loadWeight) ==
    IF node.type = "LOAD" THEN loadWeight ELSE FZero

ExternalForceY(node, loadWeight) ==
    IF node.type = "LOAD" \/ node.type = "PULLEY_FREE" THEN loadWeight ELSE FZero

\* A[row][c] of a free node after segments.forEach: every incident segment of
\* index c adds the component of its direction, in the order of the segments
RECURSIVE RowCoef(_, _, _, _, _, _, _)
RowCoef(segments, node, d, axis, c, k, acc) ==
    IF k > Len(segments) \/ IsNaN(acc) THEN acc
    ELSE RowCoef(segments, node, d, axis, c, k + 1,
                 IF Incident(segments[k], node)
                    /\ SegmentIndex(segments, segments[k].id) = c
                 THEN FAdd(acc, d[k][axis]) ELSE acc)

\* the two rows (x, then y) of a free node, d the directions of its segments
NodeRows(segments, node, externalForceY, d) ==
    After(d,
          << [a |-> SeqOf(LAMBDA c : RowCoef(segments, node, d, 1, c, 1, FZero),
                          1, Len(segments)),
              b |-> FZero, w |-> FOne],
             [a |-> SeqOf(LAMBDA c : RowCoef(segments, node, d, 2, c, 1, FZero),
                          1, Len(segments)),
              b |-> FNeg(externalForceY), w |-> FOne] >>)

\* the rows of every free node, as solveEquilibrium writes them
RECURSIVE NodeEquations(_, _, _, _, _)
NodeEquations(nodes, segments, freeNodes, loadWeight, f) ==
    IF f > Len(freeNodes) THEN <<>>
    ELSE NodeRows(segments, freeNodes[f], ExternalForceY(freeNodes[f], loadWeight),
                  Directions(nodes, segments, freeNodes[f]))
         \o NodeEquations(nodes, segments, freeNodes, loadWeight, f + 1)

\* a continuity row: A[r][nIdx] = 1, then A[r][pIdx] = -efficiency
PairRow(M, pIdx, nIdx, efficiency, weight) ==
    [a |-> SeqOf(LAMBDA c : IF c = pIdx THEN FNeg(efficiency)
                            ELSE IF c = nIdx THEN FOne ELSE FZero, 1, M),
     b |-> FZero, w |-> weight]

\* for comparison: a continuity row with the weight of a node row
ContinuityRowUnweighted(segments, prevId, nextId, efficiency) ==
    PairRow(Len(segments), SegmentIndex(segments, prevId),
            SegmentIndex(segments, nextId), efficiency, FOne)

\* the row of one adjacent pair of a rope
ContinuityRow(segments, prevId, nextId, efficiency) ==
    PairRow(Len(segments), SegmentIndex(segments, prevId),
            SegmentIndex(segments, nextId), efficiency, Weight1000)

\* the rows of one rope, from its pair (i, i + 1) on
RECURSIVE RopeRows(_, _, _, _)
RopeRows(segments, ids, efficiency, i) ==
    IF i > Len(ids) - 1 THEN <<>>
    ELSE <<ContinuityRow(segments, ids[i], ids[i + 1], efficiency)>>
         \o RopeRows(segments, ids, efficiency, i + 1)

\* the continuity rows of every rope, as solveEquilibrium writes them
RECURSIVE RopeEquations(_, _, _, _)
RopeEquations(segments, ropes, efficiency, r) ==
    IF r > Len(ropes) THEN <<>>
    ELSE RopeRows(segments, ropes[r].segmentIds, efficiency, 1)
         \o RopeEquations(segments, ropes, efficiency, r + 1)

\* the arrays A, B and Weights of N rows (of M zeros, 0 and 1.0) after the
\* equations eqs were written into their first rows, and rowCount after them
Arrays(eqs, N, M) ==
    After(eqs,
          [rowCount |-> Len(eqs),
           A |-> SeqOf(LAMBDA r : IF r <= Len(eqs) THEN eqs[r].a
                                  ELSE SeqOf(LAMBDA c : FZero, 1, M), 1, N),
           B |-> SeqOf(LAMBDA r : IF r <= Len(eqs) THEN eqs[r].b ELSE FZero, 1, N),
           Weights |-> SeqOf(LAMBDA r : IF r <= Len(eqs) THEN eqs[r].w ELSE FOne, 1, N)])

\* the system solveEquilibrium assembles in line
InlineSystem(nodes, segments, ropes, loadWeight, effectiveEfficiency) ==
    Arrays(NodeEquations(nodes, segments, SelectSeq(nodes, IsFree), loadWeight, 1)
           \o RopeEquations(segments, ropes, effectiveEfficiency, 1),
           Len(SelectSeq(nodes, IsFree)) * 2 + NumRopeEq(ropes, 1),
           Len(segments))

\* buildSystem: the rows of the free nodes
RECURSIVE buildNodeRows(_, _, _, _, _)
buildNodeRows(nodes, segments, freeNodes, loadWeight, f) ==
    IF f > Len(freeNodes) THEN <<>>
    ELSE NodeRows(segments, freeNodes[f],
                  IF freeNodes[f].type = "LOAD" \/ freeNodes[f].type = "PULLEY_FREE"
                  THEN loadWeight ELSE FZero,
                  Directions(nodes, segments, freeNodes[f]))
         \o buildNodeRows(nodes, segments, freeNodes, loadWeight, f + 1)

\* buildSystem: the rows of the ropes, from rope r and its pair (i, i + 1) on
RECURSIVE buildRopeRows(_, _, _, _, _)
buildRopeRows(segments, ropes, efficiency, r, i) ==
    IF r > Len(ropes) THEN <<>>
    ELSE IF i > Len(ropes[r].segmentIds) - 1
    THEN buildRopeRows(segments, ropes, efficiency, r + 1, 1)
    ELSE <<PairRow(Len(segments),
                   SegmentIndex(segments, ropes[r].segmentIds[i]),
                   SegmentIndex(segments, ropes[r].segmentIds[i + 1]),
                   efficiency, FromInt(1000))>>
         \o buildRopeRows(segments, ropes, efficiency, r, i + 1)

\* for comparison: a buildSystem whose rope rows are without friction
buildSystemLossless(nodes, segments, ropes, loadWeight, efficiency) ==
    Arrays(buildNodeRows(nodes, segments, SelectSeq(nodes, IsFree), loadWeight, 1)
           \o buildRopeRows(segments, ropes, FOne, 1, 1),
           Len(SelectSeq(nodes, IsFree)) * 2 + NumRopeEq(ropes, 1),
           Len(segments))

buildSystem(nodes, segments, ropes, loadWeight, efficiency) ==
    Arrays(buildNodeRows(nodes, segments, SelectSeq(nodes, IsFree), loadWeight, 1)
           \o buildRopeRows(segments, ropes, efficiency, 1, 1),
           Len(SelectSeq(nodes, IsFree)) * 2 + NumRopeEq(ropes, 1),
           Len(segments))

----------------------------------------------------------------------------
(* Math helpers.  A matrix is a tuple of rows.                               *)

\* sum = acc; for (k..n) sum += F(k)
RECURSIVE SumLoop(_, _, _, _)
SumLoop(sumFn(_), sumFrom, sumTo, sumAcc) ==
    IF sumFrom > sumTo \/ IsNaN(sumAcc) THEN sumAcc
    ELSE SumLoop(sumFn, sumFrom + 1, sumTo, FAdd(sumAcc, sumFn(sumFrom)))

transpose(A) ==
    SeqOf(LAMBDA j : SeqOf(LAMBDA i : A[i][j], 1, Len(A)), 1, Len(A[1]))

multiplyMatrices(A, B) ==
    SeqOf(LAMBDA i :
            SeqOf(LAMBDA j : SumLoop(LAMBDA k : FMul(A[i][k], B[k][j]), 1, Len(A[1]), FZero),
                  1, Len(B[1])),
          1, Len(A))

multiplyMatrixVector(m, v) ==
    SeqOf(LAMBDA i : SumLoop(LAMBDA j : FMul(m[i][j], v[j]), 1, Len(m[1]), FZero),
          1, Len(m))

\* 1e-10
Epsilon == FDiv(FOne, FMul(FromInt(100000), FromInt(100000)))

\* i_max: the first row, from k on, of the largest |M[i][k]|
RECURSIVE PivotScan(_, _, _, _, _)
PivotScan(M, k, i, imax, n) ==
    IF i > n \/ imax > n THEN imax
    ELSE PivotScan(M, k, i + 1,
                   IF FGt(FAbs(M[i][k]), FAbs(M[imax][k])) THEN i ELSE imax, n)

\* rows i..n of st.M reduced by row k, and st.x with them; f = M[i][k] / M[k][k]
RECURSIVE EliminateRows(_, _, _, _)
RECURSIVE EliminateRow(_, _, _, _, _)
EliminateRows(st, k, i, n) ==
    IF i > n THEN st
    ELSE EliminateRow(st, k, i, n, FDiv(st.M[i][k], st.M[k][k]))

EliminateRow(st, k, i, n, f) ==
    After(f,
          EliminateRows(
              [M |-> [st.M EXCEPT ![i] =
                         SeqOf(LAMBDA j : IF j < k THEN st.M[i][j]
                                          ELSE FSub(st.M[i][j], FMul(st.M[k][j], f)),
                               1, n)],
               x |-> [st.x EXCEPT ![i] = FSub(st.x[i], FMul(st.x[k], f))]],
              k, i + 1, n))

\* the elimination loop of solveGaussian from column k on: the pivot row imax
\* is found and swapped into row k, and the rows below are reduced unless the
\* pivot is below 1e-10
RECURSIVE ForwardElimination(_, _, _)
RECURSIVE ForwardSwap(_, _, _, _)
RECURSIVE ForwardReduce(_, _, _)
ForwardElimination(st, k, n) ==
    After(st, IF k > n THEN st
              ELSE ForwardSwap(st, k, n, PivotScan(st.M, k, k + 1, k, n)))

\* if (i_max !== k): rows k and i_max of M, and of x, change places
SwapRows(st, k, imax) ==
    IF imax # k
    THEN [M |-> [st.M EXCEPT ![k] = st.M[imax], ![imax] = st.M[k]],
          x |-> [st.x EXCEPT ![k] = st.x[imax], ![imax] = st.x[k]]]
    ELSE st

\* for comparison: an elimination that divides by any pivot
ReduceAlways(st, k, n) == EliminateRows(st, k, k + 1, n)

\* if (Math.abs(M[k][k]) < 1e-10) continue; else the rows below k are reduced
ReduceBelow(st, k, n) ==
    IF FLt(FAbs(st.M[k][k]), Epsilon) THEN st
    ELSE EliminateRows(st, k, k + 1, n)

ForwardSwap(st, k, n, imax) == ForwardReduce(SwapRows(st, k, imax), k, n)

ForwardReduce(st, k, n) == ForwardElimination(ReduceBelow(st, k, n), k + 1, n)

\* the back-substitution loop of solveGaussian, from row i down
RECURSIVE BackSubstitution(_, _, _, _, _)
BackSubstitution(M, x, i, n, res) ==
    IF i < 1 \/ Len(res) # n THEN res
    ELSE BackSubstitution(M, x, i - 1, n,
             [res EXCEPT ![i] =
                 IF FGt(FAbs(M[i][i]), Epsilon)
                 THEN FDiv(FSub(x[i], SumLoop(LAMBDA j : FMul(M[i][j], res[j]),
                                              i + 1, n, FZero)),
                           M[i][i])
                 ELSE FZero])

\* for comparison: a solveGaussian that eliminates in the caller's arrays
GaussianInPlace(A, b, fw) ==
    After(fw,
          [result |-> BackSubstitution(fw.M, fw.x, Len(A), Len(A),
                                       SeqOf(LAMBDA i : FZero, 1, Len(A))),
           A |-> fw.M, b |-> fw.x, M |-> fw.M, x |-> fw.x])

\* the return of solveGaussian with the arrays as the call leaves them: the
\* loops work on M and x, copies (A.map(row => [...row]), [...b]) of the
\* caller's A and b, and fw is what the elimination leaves in the copies
GaussianReturn(A, b, fw) ==
    After(fw,
          [result |-> BackSubstitution(fw.M, fw.x, Len(A), Len(A),
                                       SeqOf(LAMBDA i : FZero, 1, Len(A))),
           A |-> A, b |-> b, M |-> fw.M, x |-> fw.x])

GaussianCall(A, b) ==
    GaussianReturn(A, b, ForwardElimination([M |-> A, x |-> b], 1, Len(A)))

solveGaussian(A, b) == GaussianCall(A, b).result

\* Aw = A.map((row, i) => row.map(v => v * Weights[i]))
WeightedRows(A, Weights) ==
    SeqOf(LAMBDA i : SeqOf(LAMBDA j : FMul(A[i][j], Weights[i]), 1, Len(A[1])),
          1, Len(A))

\* Bw = B.map((v, i) => v * Weights[i])
WeightedVector(B, Weights) == SeqOf(LAMBDA i : FMul(B[i], Weights[i]), 1, Len(B))

NormalProducts(At, Aw, Bw) ==
    After(<<At, Aw, Bw>>,
          [AtA |-> multiplyMatrices(At, Aw), AtB |-> multiplyMatrixVector(At, Bw)])

NormalWeighted(Aw, Bw) == NormalProducts(transpose(Aw), Aw, Bw)

\* AtA and AtB as solveWeightedLeastSquares forms them from the weighted rows
NormalEquations(A, B, Weights) ==
    NormalWeighted(WeightedRows(A, Weights), WeightedVector(B, Weights))

SolveNormal(ne) == After(ne, [thrown |-> FALSE, val |-> solveGaussian(ne.AtA, ne.AtB)])

\* [thrown, val]: thrown when A has no row (A[0].length of an empty array)
solveWeightedLeastSquares(A, B, Weights) ==
    IF Len(A) = 0 THEN [thrown |-> TRUE, val |-> <<>>]
    ELSE IF Len(A[1]) = 0 THEN [thrown |-> FALSE, val |-> <<>>]
    ELSE SolveNormal(NormalEquations(A, B, Weights))

----------------------------------------------------------------------------
(* The solver.  targetMA is <<>> when the argument is not given and <<k>>  *)
(* for the number k.  A Map is a function from its keys.                    *)

\* if (targetMA)
Truthy(targetMA) == targetMA # <<>> /\ targetMA[1] # 0

\* for comparison: a system always built without friction
AlwaysLossless(efficiency, targetMA) == FOne

\* for comparison: a system always built with the efficiency passed
EfficiencyAsPassed(efficiency, targetMA) == efficiency

\* (targetMA === 1) ? 1.0 : efficiency
EffectiveEfficiency(efficiency, targetMA) ==
    IF targetMA # <<>> /\ targetMA[1] = 1 THEN FOne ELSE efficiency

\* map.get(id) for a Map of numbers: undefined (NaN in arithmetic) for no key
MapGet(map, id) == IF id \in DOMAIN map THEN map[id] ELSE NaN

\* array[idx]: undefined (NaN in arithmetic) outside the array
ArrayGet(array, idx) == IF idx \in 1..Len(array) THEN array[idx] ELSE NaN

SolveBuilt(sys) ==
    After(sys, IF Len(sys.A) = 0 \/ Len(sys.A[1]) = 0 THEN <<>>
               ELSE solveWeightedLeastSquares(sys.A, sys.B, sys.Weights).val)

\* the unclamped solution of the system built with the given efficiency
solveInternal(nodes, segments, ropes, loadWeight, efficiency) ==
    SolveBuilt(buildSystem(nodes, segments, ropes, loadWeight, efficiency))

\* tensions: every segment id to Math.max(0, its solved value)
ClampedTensions(segments, tensionValues) ==
    [id \in {segments[i].id : i \in 1..Len(segments)} |->
        FMax0(tensionValues[SegmentIndex(segments, id)])]

\* the force on one node: the load if it is of type LOAD, then the pull of
\* every incident segment, in the order of the segments
RECURSIVE NodeForce(_, _, _, _, _, _)
NodeForce(nodes, segments, tensions, node, k, force) ==
    IF k > Len(segments) \/ Len(force) # 2 THEN force
    ELSE NodeForce(nodes, segments, tensions, node, k + 1,
                   IF Incident(segments[k], node)
                   THEN VAdd(force, VScale(Direction(nodes, node, segments[k]),
                                           OrZero(MapGet(tensions, segments[k].id))))
                   ELSE force)

\* nodes.forEach: the node whose force stays under the id
LastNode(nodes, id) == nodes[SetMax({i \in 1..Len(nodes) : nodes[i].id = id})]

InitialForce(node, loadWeight) ==
    IF node.type = "LOAD" THEN VAdd(VZero, <<FZero, loadWeight>>) ELSE VZero

\* for comparison: forces kept for the free nodes only
NodeForcesOfFree(nodes, segments, tensions, loadWeight) ==
    [id \in {nodes[i].id : i \in {j \in 1..Len(nodes) : IsFree(nodes[j])}} |->
        NodeForce(nodes, segments, tensions, LastNode(nodes, id), 1,
                  InitialForce(LastNode(nodes, id), loadWeight))]

\* nodeForces: every node id to the force on (the last) node of that id
NodeForces(nodes, segments, tensions, loadWeight) ==
    [id \in {nodes[i].id : i \in 1..Len(nodes)} |->
        NodeForce(nodes, segments, tensions, LastNode(nodes, id), 1,
                  InitialForce(LastNode(nodes, id), loadWeight))]

\* ropes.length > 0 && ropes[0].segmentIds.length > 0
HasHaul(ropes) == Len(ropes) > 0 /\ Len(ropes[1].segmentIds) > 0

\* x > 0 ? loadWeight / x : 0
Ratio(loadWeight, x) == IF FGt(x, FZero) THEN FDiv(loadWeight, x) ELSE FZero

\* 0.01
Hundredth == FDiv(FOne, FromInt(100))

Threw == [status |-> "threw", tensions |-> <<>>, nodeForces |-> <<>>,
          stats |-> [haulTension |-> FZero, loadRef |-> FZero,
                     idealMA |-> FZero, effectiveMA |-> FZero]]

Returned(tensions, nodeForces, haulTension, loadWeight, idealMA, effectiveMA) ==
    [status |-> "returned", tensions |-> tensions, nodeForces |-> nodeForces,
     stats |-> [haulTension |-> haulTension, loadRef |-> loadWeight,
                idealMA |-> idealMA, effectiveMA |-> effectiveMA]]

\* for comparison: an override of the stats that keeps the solved tensions
OverrideStatsOnly(tensions, nodeForces, loadWeight, efficiency, idealMA, haulTension) ==
    Returned(tensions, nodeForces, haulTension, loadWeight, idealMA,
             IF FLt(FAbs(FSub(efficiency, FOne)), Hundredth) THEN idealMA
             ELSE FDiv(loadWeight, haulTension))

\* for comparison: an override that equates effectiveMA and idealMA only when
\* the efficiency is exactly 1
OverrideExactOnly(tensions, nodeForces, loadWeight, efficiency, idealMA, haulTension) ==
    Returned([id \in DOMAIN tensions |-> haulTension], nodeForces,
             haulTension, loadWeight, idealMA,
             IF efficiency = FOne THEN idealMA ELSE FDiv(loadWeight, haulTension))

\* the override: idealMA = targetMA, haulTension = loadWeight / targetMA is
\* set for every key of tensions, and effectiveMA is idealMA when efficiency
\* is within 0.01 of 1 and loadWeight / haulTension otherwise
OverrideWith(tensions, nodeForces, loadWeight, efficiency, idealMA, haulTension) ==
    After(haulTension,
          Returned([id \in DOMAIN tensions |-> haulTension], nodeForces,
                   haulTension, loadWeight, idealMA,
                   IF FLt(FAbs(FSub(efficiency, FOne)), Hundredth) THEN idealMA
                   ELSE FDiv(loadWeight, haulTension)))

\* for comparison: an override whose haul tension pays for the friction
OverrideWithFriction(tensions, nodeForces, loadWeight, efficiency, idealMA) ==
    OverrideWith(tensions, nodeForces, loadWeight, efficiency, idealMA,
                 FDiv(loadWeight, FMul(idealMA, efficiency)))

Override(tensions, nodeForces, loadWeight, efficiency, idealMA) ==
    OverrideWith(tensions, nodeForces, loadWeight, efficiency, idealMA,
                 FDiv(loadWeight, idealMA))

\* the stats from the physical solution, and the override when targetMA is
\* truthy
Stats(tensions, nodeForces, loadWeight, efficiency, targetMA, haulTension, idealHaul) ==
    After(<<nodeForces, haulTension, idealHaul>>,
          IF Truthy(targetMA)
          THEN Override(tensions, nodeForces, loadWeight, efficiency, FromInt(targetMA[1]))
          ELSE Returned(tensions, nodeForces, haulTension, loadWeight,
                        Ratio(loadWeight, idealHaul), Ratio(loadWeight, haulTension)))

\* for comparison: the haul segment taken from the last rope
HaulOfLastRope(ropes, tensions) ==
    IF Len(ropes) > 0 /\ Len(ropes[Len(ropes)].segmentIds) > 0
    THEN OrZero(MapGet(tensions, ropes[Len(ropes)].segmentIds[1]))
    ELSE FZero

\* haulTension: the tension of the first segment of the first rope, or 0
HaulTension(ropes, tensions) ==
    IF HasHaul(ropes) THEN OrZero(MapGet(tensions, ropes[1].segmentIds[1]))
    ELSE FZero

\* idealHaul: the haul segment's value in solveInternal(nodes, segments,
\* ropes, loadWeight, 1.0)
IdealHaul(nodes, segments, ropes, loadWeight) ==
    IF HasHaul(ropes)
    THEN ArrayGet(solveInternal(nodes, segments, ropes, loadWeight, FOne),
                  SegmentIndex(segments, ropes[1].segmentIds[1]))
    ELSE FZero

\* what solveEquilibrium does with the clamped tensions
Report(nodes, segments, ropes, loadWeight, efficiency, targetMA, tensions) ==
    After(tensions,
          Stats(tensions, NodeForces(nodes, segments, tensions, loadWeight),
                loadWeight, efficiency, targetMA,
                HaulTension(ropes, tensions),
                IdealHaul(nodes, segments, ropes, loadWeight)))

\* what solveEquilibrium does with the outcome of solveWeightedLeastSquares
Solved(nodes, segments, ropes, loadWeight, efficiency, targetMA, sol) ==
    After(sol,
          IF sol.thrown THEN Threw
          ELSE Report(nodes, segments, ropes, loadWeight, efficiency, targetMA,
                      ClampedTensions(segments, sol.val)))

\* what solveEquilibrium does with the arrays it assembled
Assembled(nodes, segments, ropes, loadWeight, efficiency, targetMA, sys) ==
    After(sys,
          Solved(nodes, segments, ropes, loadWeight, efficiency, targetMA,
                 solveWeightedLeastSquares(sys.A, sys.B, sys.Weights)))

\* the SimulationResult of solveEquilibrium, or Threw; loadWeight and
\* efficiency are numbers
solveEquilibrium(nodes, segments, ropes, loadWeight, efficiency, targetMA) ==
    IF Len(segments) = 0
    THEN Returned(<<>>, <<>>, FZero, loadWeight, FOne, FOne)
    ELSE Assembled(nodes, segments, ropes, loadWeight, efficiency, targetMA,
                   InlineSystem(nodes, segments, ropes, loadWeight,
                                EffectiveEfficiency(efficiency, targetMA)))

----------------------------------------------------------------------------
(* The graphs the page builds and the user reshapes.                        *)

\* generateSystem(ma): the N:1 block and tackle, the rope listed haul first
generateSystem(ma) ==
    LET isEven    == ma % 2 = 0
        isOne     == ma = 1
        haulPos   == <<500, IF isEven THEN 50 ELSE 450>>
        newNodes  == << [id |-> "n_anchor", position |-> <<400, 50>>,
                         type |-> "PULLEY_ANCHOR", sheaveCount |-> (ma + 2) \div 2],
                        [id |-> "n_load", position |-> <<400, 300>>,
                         type |-> "PULLEY_FREE", sheaveCount |-> (ma + 1) \div 2],
                        [id |-> "n_haul", position |-> haulPos, type |-> "FREE"] >>
        start     == IF isOne THEN "n_load" ELSE "n_anchor"
        flip(id)  == IF id = "n_anchor" THEN "n_load" ELSE "n_anchor"
        loopCount == IF isOne THEN 1 ELSE ma - 1
        \* currNodeId before iteration c of the loop (c = 0 .. loopCount)
        curr(c)   == IF c % 2 = 0 THEN start ELSE flip(start)
        support(c) == [id |-> "s_" \o ToString(c - 1), nodeAId |-> curr(c - 1),
                       nodeBId |-> curr(c)]
        newSegments == SeqOf(support, 1, loopCount)
                       \o << [id |-> "s_haul", nodeAId |-> curr(loopCount),
                              nodeBId |-> "n_haul"] >>
        ordered(c) == newSegments[Len(newSegments) + 1 - c].id
    IN  [nodes |-> newNodes, segments |-> newSegments,
         ropes |-> << [id |-> "r1", segmentIds |-> SeqOf(ordered, 1, Len(newSegments))] >>]

\* handleNodeMove outside the skate-block preset: the node of that id gets the
\* new position, every other node stays
MoveNode(prev, nodeId, pos) ==
    SeqOf(LAMBDA c : IF prev[c].id = nodeId
                     THEN [prev[c] EXCEPT !.position = pos] ELSE prev[c],
          1, Len(prev))

MaxMA == 2

\* where a drag may drop a node: beside the anchor, and onto the anchor
DragTargets == {<<430, 90>>, <<400, 50>>}

\* no segment at all
EmptyGraph == [nodes |-> <<>>, segments |-> <<>>, ropes |-> <<>>]

\* one segment between two fixed nodes and no rope: no free node, no equation
AnchoredSpan ==
    [nodes |-> << [id |-> "a", position |-> <<0, 0>>, type |-> "ANCHOR"],
                  [id |-> "b", position |-> <<3, 4>>, type |-> "PULLEY_ANCHOR"] >>,
     segments |-> << [id |-> "s", nodeAId |-> "a", nodeBId |-> "b"] >>,
     ropes |-> <<>>]

\* a load hanging straight below an anchor on a rope of one segment
HangingLoad ==
    [nodes |-> << [id |-> "a", position |-> <<400, 50>>, type |-> "ANCHOR"],
                  [id |-> "l", position |-> <<400, 300>>, type |-> "LOAD"] >>,
     segments |-> << [id |-> "s", nodeAId |-> "a", nodeBId |-> "l"] >>,
     ropes |-> << [id |-> "r", segmentIds |-> <<"s">>] >>]

Generated == {generateSystem(ma) : ma \in 1..MaxMA}

Dragged ==
    {[g EXCEPT !.nodes = MoveNode(g.nodes, "n_haul", pos)] :
        g \in Generated, pos \in DragTargets}

Graphs == {EmptyGraph, AnchoredSpan, HangingLoad} \cup Generated \cup Dragged

LoadWeights == {FromInt(100), FZero, FromInt(-100)}

Efficiencies == {FOne, FDiv(FromInt(995), FromInt(1000)), FDiv(FromInt(9), FromInt(10))}

TargetMAs == {<<>>, <<0>>, <<1>>, <<2>>}

----------------------------------------------------------------------------
(* The state: the arguments of the next call of solveEquilibrium, what the  *)
(* last call returned, the arrays it assembled, what its solveGaussian left *)
(* in its arguments, and a remembered earlier call; the rest of the page's  *)
(* state (home) and the state of its canvas.                                *)

VARIABLES nodes, segments, ropes, loadWeight, efficiency, targetMA,
          result, built, kernel, memo, pc, home, canvas

vars == <<nodes, segments, ropes, loadWeight, efficiency, targetMA,
          result, built, kernel, memo, pc, home, canvas>>

Args == [nodes |-> nodes, segments |-> segments, ropes |-> ropes,
         loadWeight |-> loadWeight, efficiency |-> efficiency,
         targetMA |-> targetMA]

NoResult == [status |-> "none"]

NoKernel == [called |-> FALSE]

NoSystem == [assembled |-> FALSE]

\* the arrays of a system, as a call leaves them
SystemOf(sys) ==
    After(sys, [assembled |-> TRUE, rowCount |-> sys.rowCount,
                A |-> sys.A, B |-> sys.B, Weights |-> sys.Weights])

\* the arrays the call assembles: in line (lines 57-114) unless there is no
\* segment, and in buildSystem for the ideal solve unless the solve of the
\* in-line arrays threw before
BuiltBy(ns, ss, rs, lw, eff, tma) ==
    IF Len(ss) = 0 THEN [inline |-> NoSystem, ideal |-> NoSystem]
    ELSE [inline |-> SystemOf(InlineSystem(ns, ss, rs, lw, EffectiveEfficiency(eff, tma))),
          ideal |-> IF Len(SelectSeq(ns, IsFree)) * 2 + NumRopeEq(rs, 1) = 0
                    THEN NoSystem
                    ELSE SystemOf(buildSystem(ns, ss, rs, lw, FOne))]

\* the call of solveGaussian that the solve of the tensions makes: its
\* arguments before the call and GaussianCall's account of them after it
FrameOf(ne) ==
    After(ne, [called |-> TRUE, A |-> ne.AtA, b |-> ne.AtB,
               after |-> GaussianCall(ne.AtA, ne.AtB)])

FrameIn(sys) ==
    After(sys, IF Len(sys.A) = 0 THEN NoKernel
               ELSE FrameOf(NormalEquations(sys.A, sys.B, sys.Weights)))

GaussianFrame(ns, ss, rs, lw, eff, tma) ==
    IF Len(ss) = 0 THEN NoKernel
    ELSE FrameIn(InlineSystem(ns, ss, rs, lw, EffectiveEfficiency(eff, tma)))

\* const INITIAL_LOAD = 100
INITIAL_LOAD == 100

\* const INITIAL_SKYLINE_TENSION = 200
INITIAL_SKYLINE_TENSION == 200

\* nothing queued for the next render
NoUpdate == [graph |-> <<>>, maps |-> <<>>, result |-> <<>>]

\* the useState defaults of Home that are not arguments of the solver, the
\* effects of the first commit (both run on mount) and the queue of updates
Mounted ==
    [preset |-> "SIMPLE", maCount |-> 1,
     ropeATension |-> INITIAL_SKYLINE_TENSION, carriageX |-> 400,
     effects |-> {"generate", "solve"}, update |-> NoUpdate]

\* Canvas as it mounts: useState<string | null>(null), no node pressed, no
\* call of onNodeMove made
CanvasMounted == [draggingNodeId |-> <<>>, pressed |-> <<>>, called |-> <<>>, moves |-> 0]

\* the page before its first effect: no graph, 100 kg, no friction
Init ==
    /\ nodes = <<>>
    /\ segments = <<>>
    /\ ropes = <<>>
    /\ loadWeight = FromInt(INITIAL_LOAD)
    /\ efficiency = FOne
    /\ targetMA = <<>>
    /\ result = NoResult
    /\ built = [inline |-> NoSystem, ideal |-> NoSystem]
    /\ kernel = NoKernel
    /\ memo = <<>>
    /\ pc = "idle"
    /\ home = Mounted
    /\ canvas = CanvasMounted

\* for comparison: a solver with a state, which solves without friction once
\* it has been called with other arguments
CallWithState ==
    /\ pc = "idle"
    /\ result' = solveEquilibrium(nodes, segments, ropes, loadWeight,
                                  IF memo # <<>> /\ memo.between THEN FOne
                                  ELSE efficiency,
                                  targetMA)
    /\ built' = BuiltBy(nodes, segments, ropes, loadWeight, efficiency, targetMA)
    /\ kernel' = GaussianFrame(nodes, segments, ropes, loadWeight, efficiency, targetMA)
    /\ memo' = IF memo = <<>> THEN memo
               ELSE [memo EXCEPT !.between = @ \/ (memo.args # Args)]
    /\ pc' = "done"
    /\ UNCHANGED <<nodes, segments, ropes, loadWeight, efficiency, targetMA,
                   home, canvas>>

\* PhysicsEngine.solveEquilibrium(nodes, segments, ropes, loadWeight,
\* efficiency, targetMA)
Call ==
    /\ pc = "idle"
    /\ result' = solveEquilibrium(nodes, segments, ropes, loadWeight, efficiency, targetMA)
    /\ built' = BuiltBy(nodes, segments, ropes, loadWeight, efficiency, targetMA)
    /\ kernel' = GaussianFrame(nodes, segments, ropes, loadWeight, efficiency, targetMA)
    /\ memo' = IF memo = <<>> THEN memo
               ELSE [memo EXCEPT !.between = @ \/ (memo.args # Args)]
    /\ pc' = "done"
    /\ UNCHANGED <<nodes, segments, ropes, loadWeight, efficiency, targetMA,
                   home, canvas>>

\* the caller sets up the next call with the given arguments
SetArgs(g, lw, eff, tma) ==
    /\ pc = "done"
    /\ nodes' = g.nodes
    /\ segments' = g.segments
    /\ ropes' = g.ropes
    /\ loadWeight' = lw
    /\ efficiency' = eff
    /\ targetMA' = tma
    /\ result' = NoResult
    /\ built' = [inline |-> NoSystem, ideal |-> NoSystem]
    /\ kernel' = NoKernel
    /\ pc' = "idle"
    /\ UNCHANGED <<memo, home, canvas>>

NewArgs ==
    \E g \in Graphs, lw \in LoadWeights, eff \in Efficiencies, tma \in TargetMAs :
        SetArgs(g, lw, eff, tma)

Next == Call \/ NewArgs

Spec == Init /\ [][Next]_vars

----------------------------------------------------------------------------
(* Calls with a history: one earlier call is remembered, with its arguments *)
(* and what it returned, and whether a call with other arguments was made   *)
(* since.                                                                   *)

ProbeGraphs == {EmptyGraph, HangingLoad, generateSystem(MaxMA)}

ProbeEfficiencies == {FOne, FDiv(FromInt(9), FromInt(10))}

ProbeTargetMAs == {<<>>, <<1>>, <<2>>}

\* the caller keeps what the call returned
Remember ==
    /\ pc = "done"
    /\ memo = <<>>
    /\ memo' = [args |-> Args, result |-> result, between |-> FALSE]
    /\ UNCHANGED <<home, canvas,
                   nodes, segments, ropes, loadWeight, efficiency, targetMA,
                   result, built, kernel, pc>>

Probe ==
    \E g \in ProbeGraphs, eff \in ProbeEfficiencies, tma \in ProbeTargetMAs :
        SetArgs(g, FromInt(100), eff, tma)

NextHistory == Call \/ Remember \/ Probe

SpecHistory == Init /\ [][NextHistory]_vars

----------------------------------------------------------------------------
(* Calls on reevings and on rope layouts: the page's block and tackles up   *)
(* to MaxReeving lines, and a load on two lines whose ropes are listed in   *)
(* several ways.                                                            *)

MaxReeving == 3

Reevings == {generateSystem(ma) : ma \in 1..MaxReeving}

\* a load held by two lines, one straight up and one to the side
TwoLines ==
    [nodes |-> << [id |-> "a", position |-> <<400, 50>>, type |-> "ANCHOR"],
                  [id |-> "l", position |-> <<400, 300>>, type |-> "LOAD"],
                  [id |-> "b", position |-> <<500, 50>>, type |-> "ANCHOR"] >>,
     segments |-> << [id |-> "s1", nodeAId |-> "a", nodeBId |-> "l"],
                     [id |-> "s2", nodeAId |-> "l", nodeBId |-> "b"] >>,
     ropes |-> <<>>]

\* no rope; one rope over both lines; a rope without segments listed first;
\* two ropes; a rope that lists a segment twice in a row
RopeLayouts ==
    { <<>>,
      << [id |-> "r1", segmentIds |-> <<"s1", "s2">>] >>,
      << [id |-> "r1", segmentIds |-> <<>>], [id |-> "r2", segmentIds |-> <<"s1", "s2">>] >>,
      << [id |-> "r1", segmentIds |-> <<"s1">>], [id |-> "r2", segmentIds |-> <<"s2", "s1">>] >>,
      << [id |-> "r1", segmentIds |-> <<"s1", "s1", "s2">>] >> }

Roped == {[TwoLines EXCEPT !.ropes = layout] : layout \in RopeLayouts}

RigLoadWeights == {FromInt(100), FromInt(120)}

RigEfficiencies == {FOne, FDiv(FromInt(9), FromInt(10))}

RigTargetMAs == {<<>>, <<2>>}

Rig ==
    \E g \in Reevings \cup Roped, lw \in RigLoadWeights, eff \in RigEfficiencies,
       tma \in RigTargetMAs :
        SetArgs(g, lw, eff, tma)

NextRigging == Call \/ Rig

SpecRigging == Init /\ [][NextRigging]_vars

----------------------------------------------------------------------------
(* solveGaussian step by step, on square systems up to MaxOrder unknowns    *)
(* whose rows are drawn from a few patterns: regular, singular and all-zero *)
(* matrices, and pivots below 1e-10.  kernel holds the frame of the call:   *)
(* the arguments A and b, the copies M and x, the loop index k (from 1) and *)
(* the result.                                                              *)

MaxOrder == 3

\* 1e-11
Tiny == FDiv(Epsilon, FromInt(10))

ZeroRow(n) == SeqOf(LAMBDA j : FZero, 1, n)

Rising(n) == SeqOf(LAMBDA j : FromInt(j), 1, n)

Doubled(n) == SeqOf(LAMBDA j : FromInt(2 * j), 1, n)

Falling(n) == SeqOf(LAMBDA j : FromInt(n + 1 - j), 1, n)

Alternating(n) == SeqOf(LAMBDA j : FromInt(IF j % 2 = 1 THEN -3 ELSE 1), 1, n)

TinyRow(n) == SeqOf(LAMBDA j : Tiny, 1, n)

GaussianRows(n) ==
    {ZeroRow(n), Rising(n), Doubled(n), Falling(n), Alternating(n), TinyRow(n)}

GaussianVectors(n) == {ZeroRow(n), Falling(n)}

\* const n = A.length; const M = A.map(row => [...row]); const x = [...b]
GaussianEntered(A, b) ==
    [called |-> TRUE, stage |-> "eliminate", A |-> A, b |-> b,
     M |-> A, x |-> b, k |-> 1, result |-> <<>>]

\* the frame after one pass of the loop over k, st the copies after it
GaussianPassed(frame, st) ==
    After(st, [frame EXCEPT !.M = st.M, !.x = st.x, !.k = frame.k + 1])

\* a caller calls solveGaussian(A, b)
GaussianEnter ==
    /\ ~kernel.called
    /\ \E n \in 0..MaxOrder :
           \E A \in [1..n -> GaussianRows(n)], b \in GaussianVectors(n) :
               kernel' = GaussianEntered(SeqOf(LAMBDA i : A[i], 1, n), b)
    /\ UNCHANGED <<home, canvas,
                   nodes, segments, ropes, loadWeight, efficiency, targetMA,
                   result, built, memo, pc>>

\* one pass of for (k = 0; k < n; k++): pivot search, swap, and elimination
\* unless the pivot is below 1e-10
GaussianPass ==
    /\ kernel.called /\ kernel.stage = "eliminate" /\ kernel.k <= Len(kernel.A)
    /\ kernel' =
           GaussianPassed(kernel,
               ReduceBelow(SwapRows([M |-> kernel.M, x |-> kernel.x], kernel.k,
                                    PivotScan(kernel.M, kernel.k, kernel.k + 1,
                                              kernel.k, Len(kernel.A))),
                           kernel.k, Len(kernel.A)))
    /\ UNCHANGED <<home, canvas,
                   nodes, segments, ropes, loadWeight, efficiency, targetMA,
                   result, built, memo, pc>>

\* the loop over k is over: back substitution and return result
GaussianSubstitute ==
    /\ kernel.called /\ kernel.stage = "eliminate" /\ kernel.k > Len(kernel.A)
    /\ kernel' = [kernel EXCEPT
                     !.stage = "returned",
                     !.result = BackSubstitution(kernel.M, kernel.x, Len(kernel.A),
                                                 Len(kernel.A), ZeroRow(Len(kernel.A)))]
    /\ UNCHANGED <<home, canvas,
                   nodes, segments, ropes, loadWeight, efficiency, targetMA,
                   result, built, memo, pc>>

NextGaussian == GaussianEnter \/ GaussianPass \/ GaussianSubstitute

SpecGaussian == Init /\ [][NextGaussian]_vars

----------------------------------------------------------------------------
(* The contract of solveEquilibrium.                                        *)

\* the last call returned a result
HasResult == pc = "done" /\ result.status = "returned"

\* tensions.get(id) of the result
Tension(id) == MapGet(result.tensions, id)

\* 1e-3 relative to the load weight
Tolerance == FMul(FDiv(FOne, FromInt(1000)), FAbs(loadWeight))

\* the number given as targetMA
Target == FromInt(targetMA[1])

\* C1: every value of the returned tensions map is >= 0, for all inputs, with
\* or without targetMA
C1_TensionsNonNegative ==
    HasResult => \A id \in DOMAIN result.tensions : FGe(result.tensions[id], FZero)

\* C2: solveEquilibrium never throws for a well-formed graph, the graphs that
\* produce no equation at all included
C2_NeverThrows == pc = "done" => result.status # "threw"

\* C3: with no segments the call returns empty maps and stats whose
\* haulTension, idealMA and effectiveMA are all 0
C3_EmptyIsZeroValued ==
    pc = "done" /\ segments = <<>> =>
        /\ result.status = "returned"
        /\ result.tensions = <<>>
        /\ result.nodeForces = <<>>
        /\ result.stats.haulTension = FZero
        /\ result.stats.idealMA = FZero
        /\ result.stats.effectiveMA = FZero

\* every tension of the result is loadWeight / targetMA and idealMA is targetMA
Overridden ==
    /\ \A id \in DOMAIN result.tensions : result.tensions[id] = FDiv(loadWeight, Target)
    /\ result.stats.idealMA = Target

\* C4 as stated: whenever a targetMA is supplied, every tension of the result
\* is loadWeight / targetMA and stats.idealMA is targetMA, whatever the topology
C4_OverrideWheneverSupplied == HasResult /\ targetMA # <<>> => Overridden

\* C4 amended: whenever a targetMA other than 0 is supplied with at least one
\* segment, every tension of the result is loadWeight / targetMA and
\* stats.idealMA is targetMA
C4_OverrideOfSegments ==
    HasResult /\ Truthy(targetMA) /\ segments # <<>> => Overridden

\* the override has replaced tensions that the solve of a graph of two or more
\* segments under friction had found
C4_Witness ==
    /\ HasResult /\ targetMA = <<2>> /\ Len(segments) >= 2
    /\ efficiency # FOne /\ loadWeight = FromInt(100)
    /\ \A id \in DOMAIN result.tensions : result.tensions[id] = FromInt(50)

\* C5 as stated: with targetMA = 1, stats.haulTension is loadWeight for every
\* efficiency and every graph
C5_HaulIsLoadForEveryGraph ==
    HasResult /\ targetMA = <<1>> => result.stats.haulTension = loadWeight

\* C5 amended: with targetMA = 1 and at least one segment, stats.haulTension
\* is loadWeight for every efficiency
C5_HaulIsLoadOfSegments ==
    HasResult /\ targetMA = <<1>> /\ segments # <<>> =>
        result.stats.haulTension = loadWeight

\* a 1:1 call under friction has returned the load as the haul tension
C5_Witness ==
    /\ HasResult /\ targetMA = <<1>> /\ segments # <<>>
    /\ efficiency # FOne /\ loadWeight = FromInt(100)
    /\ result.stats.haulTension = FromInt(100)

\* C6: stats.idealMA and stats.effectiveMA are never Infinity or NaN, on the
\* physical path and on the override path
C6_RatiosFinite ==
    HasResult => IsFinite(result.stats.idealMA) /\ IsFinite(result.stats.effectiveMA)

NetForce(node) ==
    NodeForce(nodes, segments, result.tensions, node, 1,
              <<FZero, ExternalForceY(node, loadWeight)>>)

\* C9: without targetMA, at every free node the pull of the returned tensions
\* plus the external load is zero within 1e-3 of the load weight, a positive
\* weight
C9_ForceBalance ==
    HasResult /\ targetMA = <<>> /\ FGt(loadWeight, FZero) =>
        \A i \in 1..Len(nodes) :
            IsFree(nodes[i]) => FLe(VLength(NetForce(nodes[i])), Tolerance)

\* tension(next) = efficiency x tension(prev) within 1e-3 of the load weight,
\* for every adjacent pair of every rope
Continuous ==
    \A r \in 1..Len(ropes) : \A i \in 1..(Len(ropes[r].segmentIds) - 1) :
        FLe(FAbs(FSub(Tension(ropes[r].segmentIds[i + 1]),
                      FMul(efficiency, Tension(ropes[r].segmentIds[i])))),
            Tolerance)

\* C10: without an override the tensions along every rope are continuous
\* within 1e-3 of the load weight; with an override all tensions are equal
C10_Continuity ==
    HasResult =>
        IF Truthy(targetMA)
        THEN \A id1, id2 \in DOMAIN result.tensions :
                 result.tensions[id1] = result.tensions[id2]
        ELSE Continuous

\* a rope of two segments was solved under friction, without override
C10_WitnessPhysical ==
    /\ HasResult /\ targetMA = <<>> /\ efficiency # FOne
    /\ loadWeight = FromInt(100)
    /\ \E r \in 1..Len(ropes) : Len(ropes[r].segmentIds) >= 2
    /\ \E id \in DOMAIN result.tensions : FGt(result.tensions[id], FZero)

----------------------------------------------------------------------------
(* The result against itself: forces, haul tension and ratios.              *)

\* the vector sum, over the segments incident to the node, of the unit
\* direction to the other endpoint times the tension the result reports for
\* the segment, plus (0, loadWeight) at a LOAD
ForceOfReported(node) ==
    NodeForce(nodes, segments, result.tensions, node, 1,
              InitialForce(node, loadWeight))

\* C11: in every returned result, with or without targetMA, the nodeForces
\* entry of each node is the sum over its incident segments of direction
\* times the tension the same result reports, plus the load at a LOAD node
C11_ForcesOfReportedTensions ==
    HasResult =>
        \A i \in 1..Len(nodes) :
            result.nodeForces[nodes[i].id] = ForceOfReported(nodes[i])

\* C12: without targetMA, stats.haulTension is the returned tension of the
\* first segment id of the first rope, and 0 when there is no rope or the first
\* rope has no segments; the ropes after the first play no part
C12_HaulIsFirstOfFirstRope ==
    HasResult /\ targetMA = <<>> =>
        result.stats.haulTension =
            IF ropes = <<>> THEN FZero
            ELSE IF ropes[1].segmentIds = <<>> THEN FZero
            ELSE result.tensions[ropes[1].segmentIds[1]]

\* a graph of two ropes was solved, the haul tension is the positive tension
\* of the first rope's first segment, and the second rope starts with a
\* segment of another tension
C12_Witness ==
    /\ HasResult /\ targetMA = <<>> /\ Len(ropes) = 2
    /\ ropes[1].segmentIds # <<>> /\ ropes[2].segmentIds # <<>>
    /\ FGt(result.stats.haulTension, FZero)
    /\ result.stats.haulTension = result.tensions[ropes[1].segmentIds[1]]
    /\ result.stats.haulTension # result.tensions[ropes[2].segmentIds[1]]

\* stats.haulTension of a separate call without friction and without targetMA
FrictionlessHaul ==
    solveEquilibrium(nodes, segments, ropes, loadWeight, FOne, <<>>).stats.haulTension

\* the remembered call differs from the last one in efficiency at most
SameButEfficiency ==
    /\ memo # <<>>
    /\ memo.result.status = "returned"
    /\ memo.args = [Args EXCEPT !.efficiency = memo.args.efficiency]

\* C13: without targetMA, stats.idealMA is loadWeight over the haul tension of
\* a separate solve with efficiency 1.0, and 0 when that haul tension is not
\* positive, so that two calls which differ only in efficiency return the
\* same idealMA
C13_IdealMAWithoutEfficiency ==
    HasResult /\ targetMA = <<>> =>
        /\ result.stats.idealMA = Ratio(loadWeight, FrictionlessHaul)
        /\ SameButEfficiency => result.stats.idealMA = memo.result.stats.idealMA

\* stats.haulTension is loadWeight / targetMA, and stats.effectiveMA is
\* targetMA when |efficiency - 1.0| < 0.01 and loadWeight / haulTension of
\* that haulTension otherwise
OverriddenStats ==
    /\ result.stats.haulTension = FDiv(loadWeight, Target)
    /\ result.stats.effectiveMA =
           IF FLt(FAbs(FSub(efficiency, FOne)), Hundredth) THEN Target
           ELSE FDiv(loadWeight, FDiv(loadWeight, Target))

\* C14 as stated: with a targetMA supplied, stats.haulTension is loadWeight /
\* targetMA and stats.effectiveMA is idealMA = targetMA when the efficiency is
\* within 0.01 of 1.0 and loadWeight / haulTension otherwise
C14_StatsWheneverSupplied == HasResult /\ targetMA # <<>> => OverriddenStats

\* C14 amended: with a targetMA other than 0 and at least one segment,
\* stats.haulTension is loadWeight / targetMA and stats.effectiveMA is targetMA
\* when the efficiency is within 0.01 of 1.0 and loadWeight / haulTension
\* otherwise
C14_StatsOfOverride ==
    HasResult /\ Truthy(targetMA) /\ segments # <<>> => OverriddenStats

\* an override with an efficiency within 0.01 of 1.0, but not 1.0, and a load
\* of 0 has returned targetMA as effectiveMA and not 0 / 0
C14_Witness ==
    /\ HasResult /\ targetMA = <<2>> /\ segments # <<>>
    /\ efficiency # FOne /\ FLt(FAbs(FSub(efficiency, FOne)), Hundredth)
    /\ loadWeight = FZero
    /\ result.stats.effectiveMA = FromInt(2)
    /\ result.stats.haulTension = FZero

----------------------------------------------------------------------------
(* The reference scenarios.                                                 *)

\* the arguments are the graph g, as it stands
GraphIs(g) == nodes = g.nodes /\ segments = g.segments /\ ropes = g.ropes

\* x is y within one part in a hundred of y
About(x, y) == FLe(FAbs(FSub(x, y)), FDiv(FAbs(y), FromInt(100)))

\* C15: for the 2:1 block and tackle as generateSystem(2) builds it, with
\* efficiency 1.0 and a load of 100, the call returns a haul tension of about
\* 50 and an effectiveMA and an idealMA of about 2.0
C15_TwoToOne ==
    /\ HasResult /\ GraphIs(generateSystem(2))
    /\ loadWeight = FromInt(100) /\ efficiency = FOne /\ targetMA = <<>>
    => /\ About(result.stats.haulTension, FromInt(50))
       /\ About(result.stats.effectiveMA, FromInt(2))
       /\ About(result.stats.idealMA, FromInt(2))

\* the 3:1 scenario was called: generateSystem(3), a load of 120, efficiency
\* 0.9, no targetMA
ThreeToOne ==
    /\ HasResult /\ GraphIs(generateSystem(3))
    /\ loadWeight = FromInt(120) /\ efficiency = FDiv(FromInt(9), FromInt(10))
    /\ targetMA = <<>>

\* along every rope each tension is 0.9 of the positive tension before it,
\* within one part in a thousand
RatioNineTenths ==
    \A r \in 1..Len(ropes) : \A i \in 1..(Len(ropes[r].segmentIds) - 1) :
        /\ FGt(Tension(ropes[r].segmentIds[i]), FZero)
        /\ FLe(FAbs(FSub(FDiv(Tension(ropes[r].segmentIds[i + 1]),
                              Tension(ropes[r].segmentIds[i])),
                         FDiv(FromInt(9), FromInt(10)))),
               FDiv(FOne, FromInt(1000)))

\* C16: for the three-segment rope with two pulley passages, a load of 120
\* and efficiency 0.9, effectiveMA is strictly less than idealMA and each
\* consecutive pair of tensions along the rope has the ratio 0.9
C16_ThreeToOne ==
    ThreeToOne =>
        /\ FLt(result.stats.effectiveMA, result.stats.idealMA)
        /\ RatioNineTenths

\* the 3:1 scenario was solved: a rope of three segments, a positive haul
\* tension, and a tension that falls along the rope
C16_Witness ==
    /\ ThreeToOne
    /\ Len(ropes) = 1 /\ Len(ropes[1].segmentIds) = 3
    /\ FGt(result.stats.haulTension, FZero)
    /\ FLt(Tension(ropes[1].segmentIds[3]), Tension(ropes[1].segmentIds[1]))

----------------------------------------------------------------------------
(* The rows of the assembled systems.                                       *)

\* the nodes that get equations, in the order of nodes
FreeNodes == SelectSeq(nodes, IsFree)

\* the component (1 for x, 2 for y) of the unit direction from the node to the
\* other endpoint of the segment, 0 for a segment not incident to the node
PullOn(node, seg, axis) ==
    IF Incident(seg, node) THEN Direction(nodes, node, seg)[axis] ELSE FZero

\* rows 2f - 1 and 2f of sys are the x and the y equation of free node f
ForceRowsOf(sys, f) ==
    /\ 2 * f <= Len(sys.A)
    /\ \A c \in 1..Len(segments) :
           /\ sys.A[2 * f - 1][c] = PullOn(FreeNodes[f], segments[c], 1)
           /\ sys.A[2 * f][c] = PullOn(FreeNodes[f], segments[c], 2)
    /\ sys.B[2 * f - 1] = FZero
    /\ sys.B[2 * f] = IF FreeNodes[f].type \in {"LOAD", "PULLEY_FREE"}
                      THEN FNeg(loadWeight) ELSE FZero
    /\ sys.Weights[2 * f - 1] = FOne
    /\ sys.Weights[2 * f] = FOne

\* the rows of weight 1.0 of sys are two for each free node, x then y, and
\* there is no other
ForceRowsIn(sys) ==
    /\ \A f \in 1..Len(FreeNodes) : ForceRowsOf(sys, f)
    /\ {r \in 1..Len(sys.A) : sys.Weights[r] = FOne} = 1..(2 * Len(FreeNodes))

\* C17: the arrays built in line and by buildSystem hold exactly two rows, x
\* then y, for each node that is not ANCHOR or PULLEY_ANCHOR and none for the
\* others; a segment's coefficient is the component of the unit direction to
\* its other endpoint if it is incident to the node and 0 otherwise; the
\* right-hand side is 0 in the x row and -loadWeight in the y row of LOAD and
\* PULLEY_FREE nodes, 0 for FREE nodes; the weight is 1.0
C17_ForceBalanceRows ==
    pc = "done" =>
        /\ built.inline.assembled => ForceRowsIn(built.inline)
        /\ built.ideal.assembled => ForceRowsIn(built.ideal)

\* both systems were built for a graph with an anchor, a loaded pulley and a
\* free node, and the loaded pulley's y row carries the load
C17_Witness ==
    /\ pc = "done" /\ built.inline.assembled /\ built.ideal.assembled
    /\ loadWeight = FromInt(100)
    /\ Len(FreeNodes) = 2 /\ Len(FreeNodes) < Len(nodes)
    /\ FreeNodes[1].type = "PULLEY_FREE" /\ FreeNodes[2].type = "FREE"
    /\ built.inline.B[2] = FromInt(-100) /\ built.inline.B[4] = FZero
    /\ \E c \in 1..Len(segments) : built.inline.A[2][c] = FromInt(-1)

\* the row (from 1) that the pair (i, i + 1) of rope r is written to
PairRowIndex(r, i) ==
    2 * Len(FreeNodes) + NumRopeEq(ropes, 1) - NumRopeEq(ropes, r) + i

\* row of sys has +1 on next, -eff on prev, 0 elsewhere, right-hand side 0 and
\* weight 1000.0
ContinuityRowAt(sys, row, prevId, nextId, eff) ==
    /\ row <= Len(sys.A)
    /\ sys.A[row][SegmentIndex(segments, nextId)] = FOne
    /\ sys.A[row][SegmentIndex(segments, prevId)] = FNeg(eff)
    /\ \A c \in 1..Len(segments) :
           c # SegmentIndex(segments, nextId) /\ c # SegmentIndex(segments, prevId)
               => sys.A[row][c] = FZero
    /\ sys.B[row] = FZero
    /\ sys.Weights[row] = Weight1000

\* sys has 2 x (free nodes) + sum of max(0, length - 1) rows, all of them
\* written and none written outside, and its rows of weight 1000.0 are one
\* for every adjacent pair of every rope
ContinuityRowsIn(sys, eff) ==
    /\ Len(sys.A) = 2 * Len(FreeNodes) + NumRopeEq(ropes, 1)
    /\ sys.rowCount = Len(sys.A)
    /\ {r \in 1..Len(sys.A) : sys.Weights[r] = Weight1000}
           = (2 * Len(FreeNodes) + 1)..Len(sys.A)
    /\ \A r \in 1..Len(ropes) : \A i \in 1..(Len(ropes[r].segmentIds) - 1) :
           ContinuityRowAt(sys, PairRowIndex(r, i), ropes[r].segmentIds[i],
                           ropes[r].segmentIds[i + 1], eff)

\* C18: in the arrays built in line and by buildSystem, every adjacent pair
\* (prev, next) of every rope has exactly one row, with +1 on next,
\* -efficiency on prev, 0 elsewhere, right-hand side 0 and weight 1000.0; a
\* rope of length 0 or 1 has none; the rows number 2 x (free nodes) + the sum
\* over the ropes of max(0, length - 1) and lie inside the arrays; also when
\* prev and next are the same segment id
C18_ContinuityRows ==
    pc = "done" =>
        /\ built.inline.assembled =>
               ContinuityRowsIn(built.inline, EffectiveEfficiency(efficiency, targetMA))
        /\ built.ideal.assembled => ContinuityRowsIn(built.ideal, FOne)

----------------------------------------------------------------------------
(* The contract of solveGaussian.                                           *)

\* the rows from k on, among which the pass over k looks for its pivot
Remaining == (kernel.k)..Len(kernel.A)

\* solveGaussian is in its loop over k
Eliminating ==
    kernel.called /\ kernel.stage = "eliminate" /\ kernel.k <= Len(kernel.A)

\* the call returns a vector of the length of A, the one the recursive
\* account of the loops gives, with 0 for every unknown whose diagonal entry is
\* not above 1e-10
ReturnsVector ==
    kernel.called /\ kernel.stage = "returned" =>
        /\ Len(kernel.result) = Len(kernel.A)
        /\ kernel.result = solveGaussian(kernel.A, kernel.b)
        /\ \A i \in 1..Len(kernel.A) :
               ~FGt(FAbs(kernel.M[i][i]), Epsilon) => kernel.result[i] = FZero

\* the pivot row read by a pass is a row of M
PivotInside ==
    Eliminating =>
        PivotScan(kernel.M, kernel.k, kernel.k + 1, kernel.k, Len(kernel.A))
            \in Remaining

\* a pass puts a row of the largest |M[i][k]| among the remaining rows into
\* row k, and when that is below 1e-10 it does nothing but that swap
PassSkipsSmallPivot ==
    Eliminating /\ kernel'.k = kernel.k + 1 =>
        /\ \A i \in Remaining :
               FGe(FAbs(kernel'.M[kernel.k][kernel.k]), FAbs(kernel.M[i][kernel.k]))
        /\ (\A i \in Remaining : FLt(FAbs(kernel.M[i][kernel.k]), Epsilon)) =>
               \E imax \in Remaining :
                   [M |-> kernel'.M, x |-> kernel'.x]
                       = SwapRows([M |-> kernel.M, x |-> kernel.x], kernel.k, imax)

\* C19: solveGaussian(A, b) on an n x n system returns a vector of length n
\* and reads no row outside M, for singular and all-zero matrices too: a pass
\* whose pivot, the largest in magnitude of the column among the remaining
\* rows, is below 1e-10 eliminates nothing, and back substitution gives 0 to
\* every unknown whose diagonal entry is not above 1e-10
C19_GaussianTotal ==
    /\ [](ReturnsVector /\ PivotInside)
    /\ [][PassSkipsSmallPivot]_vars

\* a singular system of two or more unknowns was solved: a pass was skipped,
\* the unknown of the zero diagonal entry is 0 and another one is not
C19_Witness ==
    /\ kernel.called /\ kernel.stage = "returned" /\ Len(kernel.A) >= 2
    /\ kernel.A[1] # ZeroRow(Len(kernel.A))
    /\ \E i, j \in 1..Len(kernel.A) :
           /\ kernel.M[i][i] = FZero /\ kernel.result[i] = FZero
           /\ kernel.result[j] # FZero

----------------------------------------------------------------------------
(* The 1:1 label.                                                           *)

\* every continuity row of the arrays built in line has -1 on the previous
\* segment
LosslessRows ==
    \A r \in 1..Len(ropes) : \A i \in 1..(Len(ropes[r].segmentIds) - 1) :
        built.inline.A[PairRowIndex(r, i)][SegmentIndex(segments, ropes[r].segmentIds[i])]
            = FNeg(FOne)

\* C20: with targetMA = 1 the system is built with efficiency 1.0 whatever
\* efficiency is passed: every continuity row has -1 on the previous segment,
\* and two calls that differ only in efficiency return the same nodeForces
\* and the same tensions
C20_OneToOneWithoutFriction ==
    pc = "done" /\ targetMA = <<1>> =>
        /\ built.inline.assembled => LosslessRows
        /\ HasResult /\ SameButEfficiency =>
               /\ result.nodeForces = memo.result.nodeForces
               /\ result.tensions = memo.result.tensions

\* a rope of two segments was solved twice with targetMA = 1, once without
\* and once with friction, and a continuity row was built
C20_Witness ==
    /\ HasResult /\ targetMA = <<1>> /\ SameButEfficiency
    /\ memo.args.efficiency = FOne /\ efficiency # FOne
    /\ \E r \in 1..Len(ropes) : Len(ropes[r].segmentIds) >= 2
    /\ built.inline.assembled /\ Len(built.inline.A) > 2 * Len(FreeNodes)
    /\ \E id \in DOMAIN result.nodeForces : result.nodeForces[id] # VZero

----------------------------------------------------------------------------
(* The page: Home with its two effects, the control panel and the canvas.   *)
(* A state update (setNodes, setResult, ...) is queued and takes effect at  *)
(* the next render; an effect runs after the commit whose render changed    *)
(* one of its dependencies, and reads the state of that render; an array    *)
(* that was set or mapped is a new array, whatever it holds.                *)

\* generateComplexRig: one rope from the port-a-wrap over the tree top
\* through the carriage, the building anchor and the load block
generateComplexRig ==
    [nodes |-> << [id |-> "n_portawrap", position |-> <<750, 500>>, type |-> "ANCHOR"],
                  [id |-> "n_tree_top", position |-> <<750, 120>>, type |-> "PULLEY_ANCHOR"],
                  [id |-> "n_building", position |-> <<100, 100>>, type |-> "ANCHOR"],
                  [id |-> "n_carriage", position |-> <<400, 220>>, type |-> "PULLEY_FREE"],
                  [id |-> "n_load", position |-> <<400, 400>>, type |-> "LOAD"] >>,
     segments |-> << [id |-> "s1", nodeAId |-> "n_portawrap", nodeBId |-> "n_tree_top"],
                     [id |-> "s2", nodeAId |-> "n_tree_top", nodeBId |-> "n_carriage"],
                     [id |-> "s3", nodeAId |-> "n_carriage", nodeBId |-> "n_building"],
                     [id |-> "s4", nodeAId |-> "n_building", nodeBId |-> "n_carriage"],
                     [id |-> "s5", nodeAId |-> "n_carriage", nodeBId |-> "n_load"],
                     [id |-> "s6", nodeAId |-> "n_load", nodeBId |-> "n_carriage"] >>,
     ropes |-> << [id |-> "r_main",
                   segmentIds |-> <<"s1", "s2", "s3", "s4", "s5", "s6">>] >>]

\* generateSkateBlock: the skyline (rope A) and the two control lines
generateSkateBlock ==
    [nodes |-> << [id |-> "n_building", position |-> <<100, 100>>, type |-> "ANCHOR"],
                  [id |-> "n_tree", position |-> <<700, 100>>, type |-> "ANCHOR"],
                  [id |-> "n_carriage", position |-> <<400, 200>>, type |-> "PULLEY_FREE"],
                  [id |-> "n_load", position |-> <<400, 300>>, type |-> "LOAD"],
                  [id |-> "n_portawrap", position |-> <<700, 450>>, type |-> "ANCHOR"] >>,
     segments |-> << [id |-> "sa1", nodeAId |-> "n_building", nodeBId |-> "n_carriage"],
                     [id |-> "sa2", nodeAId |-> "n_carriage", nodeBId |-> "n_tree"],
                     [id |-> "sa3", nodeAId |-> "n_tree", nodeBId |-> "n_portawrap"],
                     [id |-> "sb1", nodeAId |-> "n_carriage", nodeBId |-> "n_building"],
                     [id |-> "sb2", nodeAId |-> "n_building", nodeBId |-> "n_carriage"],
                     [id |-> "sb3", nodeAId |-> "n_carriage", nodeBId |-> "n_load"],
                     [id |-> "sc1", nodeAId |-> "n_carriage", nodeBId |-> "n_tree"],
                     [id |-> "sc2", nodeAId |-> "n_tree", nodeBId |-> "n_carriage"],
                     [id |-> "sc3", nodeAId |-> "n_carriage", nodeBId |-> "n_load"] >>,
     ropes |-> << [id |-> "ropeA", segmentIds |-> <<"sa3", "sa2", "sa1">>],
                  [id |-> "ropeB", segmentIds |-> <<"sb1", "sb2", "sb3">>],
                  [id |-> "ropeC", segmentIds |-> <<"sc1", "sc2", "sc3">>] >>]

\* for comparison: a generator whose ropes end in a segment that is not made
GenerateWithSpare(preset, maCount) ==
    [generateSystem(maCount) EXCEPT !.ropes[1].segmentIds = Append(@, "s_spare")]

\* the topology the generate effect sets for a preset
Generate(preset, maCount) ==
    IF preset = "SIMPLE" THEN generateSystem(maCount)
    ELSE IF preset = "COMPLEX" THEN generateComplexRig
    ELSE generateSkateBlock

\* nodes.find(n => n.id === id) finds a node
HasNode(prev, id) == \E c \in 1..Len(prev) : prev[c].id = id

\* the carriage height a skate-block solve is taken to return
SkateHeights == {230}

\* solveSkateBlock(anchorA, anchorB, carriageX, skylineTension, loadWeight,
\* efficiency): a carriage height and three line tensions.  The function is
\* not among the sources; its interface is all that is known, so a call has
\* one of several outcomes: the skyline keeps its tension and the two
\* control lines share the load
solveSkateBlock(anchorA, anchorB, carriageX, skylineTension, lw, eff) ==
    {[carriageY |-> y, tensionA |-> FromInt(skylineTension),
      tensionB |-> FDiv(lw, FromInt(2)), tensionC |-> FDiv(lw, FromInt(2))] :
        y \in SkateHeights}

\* prev.map of the skate-block branch: n_carriage goes to (x, y) and n_load
\* hangs 100 below it
PlaceCarriage(prev, x, y) ==
    SeqOf(LAMBDA c : IF prev[c].id = "n_carriage"
                     THEN [prev[c] EXCEPT !.position = <<x, y>>]
                     ELSE IF prev[c].id = "n_load"
                     THEN [prev[c] EXCEPT !.position = <<x, y + 100>>]
                     ELSE prev[c],
          1, Len(prev))

\* the SimulationResult the skate-block branch sets
SkateResult(sbRes, lw) ==
    [status |-> "returned",
     tensions |-> [id \in {"sa1", "sa2", "sa3", "sb1", "sb2", "sb3",
                           "sc1", "sc2", "sc3"} |->
                      IF id \in {"sa1", "sa2", "sa3"} THEN sbRes.tensionA
                      ELSE IF id \in {"sb1", "sb2", "sb3"} THEN sbRes.tensionB
                      ELSE sbRes.tensionC],
     nodeForces |-> <<>>,
     stats |-> [haulTension |-> sbRes.tensionA, loadRef |-> lw,
                idealMA |-> FZero, effectiveMA |-> FZero]]

\* for comparison: a page that never passes a targetMA
NoTargetMA(preset, maCount) == <<>>

\* const targetMA = preset === 'SIMPLE' ? maCount : undefined
PageTargetMA(preset, maCount) == IF preset = "SIMPLE" THEN <<maCount>> ELSE <<>>

\* the queued functional updates of nodes applied in order, from the i-th on
RECURSIVE Mapped(_, _, _)
Mapped(prev, maps, i) ==
    IF i > Len(maps) THEN prev
    ELSE Mapped(PlaceCarriage(prev, maps[i].x, maps[i].y), maps, i + 1)

\* the nodes of the next render: the queued setNodes(newNodes), then the
\* queued maps, then the map of a drag (move is <<>> or one node move)
QueuedNodes(update, move) ==
    IF move = <<>>
    THEN Mapped(IF update.graph = <<>> THEN nodes ELSE update.graph[1].nodes,
                update.maps, 1)
    ELSE MoveNode(Mapped(IF update.graph = <<>> THEN nodes ELSE update.graph[1].nodes,
                         update.maps, 1),
                  move[1].nodeId, move[1].pos)

\* the effects whose dependencies the next render changes: the generate
\* effect depends on maCount and preset, the solve effect on nodes, segments,
\* ropes, loadWeight, efficiency, maCount, preset, ropeATension and carriageX
StaleEffects(update, move, preset, maCount, lw, eff, skyline, cx) ==
    (IF preset # home.preset \/ maCount # home.maCount THEN {"generate"} ELSE {})
    \cup
    (IF \/ update.graph # <<>> \/ update.maps # <<>> \/ move # <<>>
        \/ lw # loadWeight \/ eff # efficiency
        \/ maCount # home.maCount \/ preset # home.preset
        \/ skyline # home.ropeATension \/ cx # home.carriageX
     THEN {"solve"} ELSE {})

solverVars == <<targetMA, built, kernel, memo, pc>>

\* an event is handled when the effects of the last commit have run and the
\* updates they queued are rendered; in the skate-block preset, where every
\* solve queues a map of the nodes, it is handled before that render
Handling ==
    /\ home.effects = {}
    /\ home.update = NoUpdate \/ home.preset = "SKATE_BLOCK"

\* a render and its commit: the queued updates and the updates of an event
\* handler (the values given) become the state, and the effects whose
\* dependencies changed are scheduled
Commit(update, move, preset, maCount, lw, eff, skyline, cx) ==
    /\ nodes' = QueuedNodes(update, move)
    /\ segments' = IF update.graph = <<>> THEN segments ELSE update.graph[1].segments
    /\ ropes' = IF update.graph = <<>> THEN ropes ELSE update.graph[1].ropes
    /\ result' = IF update.result = <<>> THEN result ELSE update.result[1]
    /\ loadWeight' = lw
    /\ efficiency' = eff
    /\ home' = [preset |-> preset, maCount |-> maCount,
                ropeATension |-> skyline, carriageX |-> cx,
                effects |-> StaleEffects(update, move, preset, maCount,
                                         lw, eff, skyline, cx),
                update |-> NoUpdate]
    /\ UNCHANGED solverVars

\* the render of the updates the effects queued
Render ==
    /\ home.effects = {}
    /\ home.update # NoUpdate
    /\ Commit(home.update, <<>>, home.preset, home.maCount, loadWeight,
              efficiency, home.ropeATension, home.carriageX)
    /\ UNCHANGED canvas

\* the generate effect: setNodes, setSegments and setRopes of the preset's
\* topology
GenerateEffect ==
    /\ "generate" \in home.effects
    /\ home' = [home EXCEPT !.effects = @ \ {"generate"},
                            !.update = [@ EXCEPT !.graph = <<Generate(home.preset,
                                                                      home.maCount)>>,
                                                 !.maps = <<>>]]
    /\ UNCHANGED <<nodes, segments, ropes, loadWeight, efficiency, result,
                   canvas, solverVars>>

\* the solve effect in the skate-block preset: with n_building and n_tree
\* among the nodes it maps the nodes and sets the result, else it does
\* nothing
SolveSkateBlock ==
    /\ home.effects = {"solve"}
    /\ home.preset = "SKATE_BLOCK"
    /\ IF HasNode(nodes, "n_building") /\ HasNode(nodes, "n_tree")
       THEN \E sbRes \in solveSkateBlock(FindNode(nodes, "n_building").position,
                                         FindNode(nodes, "n_tree").position,
                                         home.carriageX, home.ropeATension,
                                         loadWeight, efficiency) :
               home' = [home EXCEPT
                           !.effects = {},
                           !.update = [@ EXCEPT
                               !.maps = Append(@, [x |-> home.carriageX,
                                                   y |-> sbRes.carriageY]),
                               !.result = <<SkateResult(sbRes, loadWeight)>>]]
       ELSE home' = [home EXCEPT !.effects = {}]
    /\ UNCHANGED <<nodes, segments, ropes, loadWeight, efficiency, result,
                   canvas, solverVars>>

\* the solve effect in the other presets: setResult(solveEquilibrium(...))
SolveRig ==
    /\ home.effects = {"solve"}
    /\ home.preset # "SKATE_BLOCK"
    /\ home' = [home EXCEPT
                   !.effects = {},
                   !.update = [@ EXCEPT !.result =
                       <<solveEquilibrium(nodes, segments, ropes, loadWeight,
                                          efficiency,
                                          PageTargetMA(home.preset, home.maCount))>>]]
    /\ UNCHANGED <<nodes, segments, ropes, loadWeight, efficiency, result,
                   canvas, solverVars>>

\* onPreset(val) of the panel's three preset buttons
onPreset(val) ==
    /\ Handling
    /\ Commit(home.update, <<>>,
              IF val = 2 THEN "SKATE_BLOCK" ELSE IF val = 1 THEN "COMPLEX" ELSE "SIMPLE",
              home.maCount, loadWeight, efficiency, home.ropeATension, home.carriageX)
    /\ UNCHANGED canvas

ChoosePreset == \E val \in 0..2 : onPreset(val)

\* the stepper, shown in the SIMPLE preset: setMaCount(Math.max(1, maCount - 1))
StepDown ==
    /\ Handling
    /\ home.preset = "SIMPLE"
    /\ Commit(home.update, <<>>, home.preset,
              IF 1 > home.maCount - 1 THEN 1 ELSE home.maCount - 1,
              loadWeight, efficiency, home.ropeATension, home.carriageX)
    /\ UNCHANGED canvas

\* for comparison: a '+' that does not stop at 6
StepPast ==
    /\ Handling
    /\ home.preset = "SIMPLE"
    /\ Commit(home.update, <<>>, home.preset, home.maCount + 1,
              loadWeight, efficiency, home.ropeATension, home.carriageX)
    /\ UNCHANGED canvas

\* setMaCount(Math.min(6, maCount + 1))
StepUp ==
    /\ Handling
    /\ home.preset = "SIMPLE"
    /\ Commit(home.update, <<>>, home.preset,
              IF 6 < home.maCount + 1 THEN 6 ELSE home.maCount + 1,
              loadWeight, efficiency, home.ropeATension, home.carriageX)
    /\ UNCHANGED canvas

\* the sliders' values that are tried
LoadSteps == {100, 120}

EfficiencySteps == {FOne, FDiv(FromInt(9), FromInt(10))}

SkylineSteps == {200, 210}

\* setLoadWeight(Number(e.target.value))
setLoadWeight(v) ==
    /\ Handling
    /\ Commit(home.update, <<>>, home.preset, home.maCount, FromInt(v),
              efficiency, home.ropeATension, home.carriageX)
    /\ UNCHANGED canvas

\* setEfficiency(Number(e.target.value))
setEfficiency(v) ==
    /\ Handling
    /\ Commit(home.update, <<>>, home.preset, home.maCount, loadWeight,
              v, home.ropeATension, home.carriageX)
    /\ UNCHANGED canvas

\* setRopeATension(Number(e.target.value)), shown in the skate-block preset
setRopeATension(v) ==
    /\ Handling
    /\ home.preset = "SKATE_BLOCK"
    /\ Commit(home.update, <<>>, home.preset, home.maCount, loadWeight,
              efficiency, v, home.carriageX)
    /\ UNCHANGED canvas

SlideLoad == \E v \in LoadSteps : setLoadWeight(v)

SlideEfficiency == \E v \in EfficiencySteps : setEfficiency(v)

SlideSkyline == \E v \in SkylineSteps : setRopeATension(v)

\* handleReset: preset, maCount, efficiency, loadWeight, ropeATension and
\* carriageX are set to their defaults
handleReset ==
    /\ Handling
    /\ Commit(home.update, <<>>, "SIMPLE", 1, FromInt(INITIAL_LOAD), FOne,
              INITIAL_SKYLINE_TENSION, 400)
    /\ UNCHANGED canvas

\* where the pointer is when it moves: left of, within and right of the
\* span the carriage may travel
PointerPositions == {<<90, 90>>, <<430, 90>>, <<700, 90>>}

\* the calls of onNodeMove that are followed
MaxMoves == 1

\* for comparison: a carriage that follows the pointer anywhere
PointerX(x) == x

\* Math.max(120, Math.min(680, pos.x))
ClampedX(x) == IF x > 680 THEN 680 ELSE IF x < 120 THEN 120 ELSE x

\* handleNodeMove(nodeId, pos): in the skate-block preset a drag of
\* n_carriage or n_load sets carriageX and a drag of another node sets
\* nothing; in the other presets the node of that id gets the position
handleNodeMove(nodeId, pos) ==
    IF home.preset = "SKATE_BLOCK"
    THEN IF nodeId = "n_carriage" \/ nodeId = "n_load"
         THEN Commit(home.update, <<>>, home.preset, home.maCount, loadWeight,
                     efficiency, home.ropeATension, ClampedX(pos[1]))
         ELSE UNCHANGED <<nodes, segments, ropes, loadWeight, efficiency,
                          result, home, solverVars>>
    ELSE Commit(home.update, <<[nodeId |-> nodeId, pos |-> pos]>>, home.preset,
                home.maCount, loadWeight, efficiency, home.ropeATension,
                home.carriageX)

\* for comparison: a drag that stays with the node it began on
FirstGrabbed(draggingNodeId, nodeId) ==
    IF draggingNodeId = <<>> THEN <<nodeId>> ELSE draggingNodeId

\* setDraggingNodeId(nodeId)
Grabbed(draggingNodeId, nodeId) == <<nodeId>>

\* handleStart(e, nodeId) of Canvas, on one of the nodes drawn; pressed is
\* the node of the last start that no end has followed, and called the call
\* of onNodeMove the last pointer event made
handleStart(nodeId) ==
    /\ Handling
    /\ canvas' = [canvas EXCEPT
                     !.draggingNodeId = Grabbed(canvas.draggingNodeId, nodeId),
                     !.pressed = <<nodeId>>, !.called = <<>>]
    /\ UNCHANGED <<nodes, segments, ropes, loadWeight, efficiency, result,
                   home, solverVars>>

\* handleMove(e) of Canvas: nothing without a drag, else
\* onNodeMove(draggingNodeId, pos)
handleMove(pos) ==
    /\ Handling
    /\ IF canvas.draggingNodeId = <<>>
       THEN /\ canvas' = [canvas EXCEPT !.called = <<>>]
            /\ UNCHANGED <<nodes, segments, ropes, loadWeight, efficiency,
                           result, home, solverVars>>
       ELSE /\ canvas.moves < MaxMoves
            /\ canvas' = [canvas EXCEPT
                             !.called = <<canvas.draggingNodeId[1]>>,
                             !.moves = @ + 1]
            /\ handleNodeMove(canvas.draggingNodeId[1], pos)

\* handleEnd() of Canvas
handleEnd ==
    /\ Handling
    /\ canvas' = [canvas EXCEPT !.draggingNodeId = <<>>, !.pressed = <<>>,
                                !.called = <<>>]
    /\ UNCHANGED <<nodes, segments, ropes, loadWeight, efficiency, result,
                   home, solverVars>>

PointerDown == \E c \in 1..Len(nodes) : handleStart(nodes[c].id)

PointerMove == \E pos \in PointerPositions : handleMove(pos)

\* the page as it mounts: the useState defaults, both effects to run
InitHome ==
    /\ nodes = <<>>
    /\ segments = <<>>
    /\ ropes = <<>>
    /\ loadWeight = FromInt(INITIAL_LOAD)
    /\ efficiency = FOne
    /\ targetMA = <<>>
    /\ result = Returned(<<>>, <<>>, FZero, FZero, FZero, FZero)
    /\ built = [inline |-> NoSystem, ideal |-> NoSystem]
    /\ kernel = NoKernel
    /\ memo = <<>>
    /\ pc = "idle"
    /\ home = Mounted
    /\ canvas = CanvasMounted

\* the page under the preset buttons, the stepper and the reset button
NextPanel ==
    \/ GenerateEffect \/ SolveSkateBlock \/ SolveRig \/ Render
    \/ ChoosePreset \/ StepDown \/ StepUp \/ handleReset

SpecPanel == InitHome /\ [][NextPanel]_vars

\* a step of the solve effect (SolveRig or SolveSkateBlock): no other action
\* leaves a state in which the solve effect alone is scheduled
SolveRan == home.effects = {"solve"} /\ home'.effects = {}

\* WF_vars(SolveRig \/ SolveSkateBlock) written out, with the guard of the
\* two actions for ENABLED (each solve gives an outcome)
SolveFair == []<>(home.effects # {"solve"}) \/ []<><<SolveRan>>_vars

\* React runs every scheduled effect and renders every queued update
EffectsFair == WF_vars(GenerateEffect) /\ SolveFair /\ WF_vars(Render)

SpecPanelFair == SpecPanel /\ EffectsFair

\* the page under the preset buttons, the sliders and the reset button
NextSliders ==
    \/ GenerateEffect \/ SolveSkateBlock \/ SolveRig \/ Render
    \/ ChoosePreset \/ SlideLoad \/ SlideEfficiency \/ SlideSkyline
    \/ handleReset

SpecSliders == InitHome /\ [][NextSliders]_vars

\* a panel button is clicked with the pointer that drags: when no drag is
\* in progress
ReleasedPreset == canvas.draggingNodeId = <<>> /\ ChoosePreset

ReleasedReset == canvas.draggingNodeId = <<>> /\ handleReset

\* the page under its canvas, the preset buttons and the reset button
NextCanvas ==
    \/ GenerateEffect \/ SolveSkateBlock \/ SolveRig \/ Render
    \/ ReleasedPreset \/ ReleasedReset
    \/ PointerDown \/ PointerMove \/ handleEnd

SpecCanvas == InitHome /\ [][NextCanvas]_vars

----------------------------------------------------------------------------
(* The topologies of the generators.                                        *)

NodeIdsOf(g) == {g.nodes[c].id : c \in 1..Len(g.nodes)}

SegmentIdsOf(g) == {g.segments[c].id : c \in 1..Len(g.segments)}

EndsOf(g, id) ==
    {g.segments[SegmentIndex(g.segments, id)].nodeAId,
     g.segments[SegmentIndex(g.segments, id)].nodeBId}

\* every segment endpoint names a node
EndpointsNamed(g) ==
    \A c \in 1..Len(g.segments) :
        g.segments[c].nodeAId \in NodeIdsOf(g) /\ g.segments[c].nodeBId \in NodeIdsOf(g)

\* every segment id of a rope names a segment
RopesNamed(g) ==
    \A r \in 1..Len(g.ropes) : \A k \in 1..Len(g.ropes[r].segmentIds) :
        g.ropes[r].segmentIds[k] \in SegmentIdsOf(g)

SegmentIdsUnique(g) ==
    \A c, d \in 1..Len(g.segments) : g.segments[c].id = g.segments[d].id => c = d

\* consecutive segments of a rope share a node
RopesConnected(g) ==
    \A r \in 1..Len(g.ropes) : \A k \in 1..(Len(g.ropes[r].segmentIds) - 1) :
        EndsOf(g, g.ropes[r].segmentIds[k])
            \cap EndsOf(g, g.ropes[r].segmentIds[k + 1]) # {}

\* the rope begins with the haul segment, which ends at n_haul
HaulFirst(g) ==
    /\ Len(g.ropes) = 1
    /\ g.ropes[1].segmentIds[1] = "s_haul"
    /\ "n_haul" \in EndsOf(g, "s_haul")

WellFormed(g) ==
    EndpointsNamed(g) /\ RopesNamed(g) /\ SegmentIdsUnique(g) /\ RopesConnected(g)

\* C21: the topology the generate effect sets, for every preset and every
\* maCount, satisfies the data-model invariants (endpoints name nodes, rope
\* ids name segments, segment ids are unique, consecutive rope segments share
\* a node), and that of generateSystem lists the haul segment first
C21_GeneratedWellFormed ==
    home.update.graph # <<>> =>
        /\ WellFormed(home.update.graph[1])
        /\ home.preset = "SIMPLE" => HaulFirst(home.update.graph[1])

\* a 6:1 system, the complex rig and the skate block have been generated
C21_Witness ==
    /\ home.update.graph # <<>>
    /\ home.preset = "SIMPLE"
    /\ home.maCount = 6
    /\ Len(home.update.graph[1].segments) = 6

----------------------------------------------------------------------------
(* The effects of the page.                                                 *)

\* no effect is scheduled and no update is queued
Settled == home.effects = {} /\ home.update = NoUpdate

\* C22: whatever the user did last, the chain of effects and renders that
\* follows comes to a state in which no effect is scheduled and no update
\* of nodes or result is queued
C22_EffectsSettle == []<>Settled

\* the displayed result is that of the solver for what is displayed
ResultCurrent ==
    result = solveEquilibrium(nodes, segments, ropes, loadWeight, efficiency,
                              IF home.preset = "SIMPLE" THEN <<home.maCount>>
                              ELSE <<>>)

\* the page has settled on the result of its current state; in SIMPLE the
\* displayed idealMA is maCount and every segment has its tension
ResultShown ==
    /\ Settled
    /\ ResultCurrent
    /\ result.status = "returned"
    /\ home.preset = "SIMPLE" =>
           /\ result.stats.idealMA = FromInt(home.maCount)
           /\ DOMAIN result.tensions = {segments[c].id : c \in 1..Len(segments)}

\* C23: in SIMPLE and COMPLEX the page, left alone after a user action,
\* comes to display solveEquilibrium of its current nodes, segments, ropes,
\* loadWeight and efficiency, with targetMA = maCount in SIMPLE and none in
\* COMPLEX, and whenever it has settled it displays that result; in SIMPLE
\* idealMA is then maCount, with one tension for each segment generated
C23_ResultEventuallyCurrent ==
    /\ [](Settled /\ home.preset # "SKATE_BLOCK" => ResultShown)
    /\ (home.preset # "SKATE_BLOCK") ~> (ResultShown \/ home.preset = "SKATE_BLOCK")

\* after a step from 2 to 3 the 3:1 system is displayed with its result
C23_Witness ==
    /\ ResultShown
    /\ home.preset = "SIMPLE"
    /\ home.maCount = 3
    /\ segments = generateSystem(3).segments
    /\ result.stats.idealMA = FromInt(3)

----------------------------------------------------------------------------
(* The reset button.                                                        *)

\* the page shows the values handleReset sets and has settled: a click on
\* the reset button changes nothing and leaves the page as it is
ResetChangesNothing ==
    /\ Settled
    /\ canvas.draggingNodeId = <<>>
    /\ home.preset = "SIMPLE"
    /\ home.maCount = 1
    /\ efficiency = FOne
    /\ loadWeight = FromInt(INITIAL_LOAD)
    /\ home.ropeATension = INITIAL_SKYLINE_TENSION
    /\ home.carriageX = 400

\* C24: once the effects that follow handleReset have settled the page is in
\* its initial state, the nodes at the default 1:1 layout whatever was
\* dragged before; so a settled page on which a reset changes nothing (SIMPLE,
\* maCount 1, efficiency 1.0, loadWeight 100) has its nodes at that layout
C24_ResetRestoresLayout ==
    ResetChangesNothing => nodes = generateSystem(1).nodes

----------------------------------------------------------------------------
(* The drags on the canvas.                                                 *)

\* C25: the node Canvas holds as dragged is the node of the last handleStart
\* that no handleEnd has followed (so a second start retargets the drag),
\* and a pointer event calls onNodeMove only during such a drag and only
\* with the id of that node; a move outside a drag calls nothing
C25_DragProtocol ==
    /\ canvas.draggingNodeId = canvas.pressed
    /\ canvas.called # <<>> =>
           canvas.pressed # <<>> /\ canvas.called = canvas.pressed

\* onNodeMove was called for n_load, pressed last, and the node has moved
C25_Witness ==
    /\ canvas.called = <<"n_load">>
    /\ canvas.pressed = <<"n_load">>
    /\ home.preset = "COMPLEX"
    /\ \E c \in 1..Len(nodes) :
           nodes[c].id = "n_load" /\ nodes[c].position \in PointerPositions

\* a step in which a pointer move called onNodeMove
DragStep == canvas'.moves = canvas.moves + 1

\* the step sets carriageX to the pointer's x brought into [120, 680] and,
\* but for the updates already queued that are rendered with it, nothing else
CarriageOnly ==
    /\ \E pos \in PointerPositions :
           /\ pos[1] < 120 => home'.carriageX = 120
           /\ pos[1] > 680 => home'.carriageX = 680
           /\ pos[1] \in 120..680 => home'.carriageX = pos[1]
    /\ home'.preset = home.preset
    /\ home'.maCount = home.maCount
    /\ home'.ropeATension = home.ropeATension
    /\ nodes' = QueuedNodes(home.update, <<>>)
    /\ segments' = IF home.update.graph = <<>> THEN segments
                   ELSE home.update.graph[1].segments
    /\ ropes' = IF home.update.graph = <<>> THEN ropes
                ELSE home.update.graph[1].ropes
    /\ UNCHANGED <<loadWeight, efficiency>>

\* the step gives the node of that id a position of the pointer and changes
\* no other node, no segment and no rope
PositionOnly(id) ==
    /\ Len(nodes') = Len(nodes)
    /\ \A c \in 1..Len(nodes) :
           IF nodes[c].id = id
           THEN \E pos \in PointerPositions :
                    nodes'[c] = [nodes[c] EXCEPT !.position = pos]
           ELSE nodes'[c] = nodes[c]
    /\ home'.carriageX = home.carriageX
    /\ UNCHANGED <<segments, ropes, loadWeight, efficiency>>

\* C26: carriageX stays within [120, 680]; in the skate-block preset a drag
\* of n_carriage or n_load changes only carriageX, to the clamped pointer x,
\* and a drag of another node changes nothing; in the other presets a drag
\* changes only the position of the dragged node
C26_DragChanges ==
    /\ [](home.carriageX \in 120..680)
    /\ [][DragStep =>
             IF home.preset = "SKATE_BLOCK"
             THEN IF canvas'.called \in {<<"n_carriage">>, <<"n_load">>}
                  THEN CarriageOnly
                  ELSE UNCHANGED <<nodes, segments, ropes, loadWeight,
                                   efficiency, result, home>>
             ELSE PositionOnly(canvas'.called[1])]_vars

\* the carriage was dragged right of the span and stopped at its end
C26_Witness ==
    /\ home.preset = "SKATE_BLOCK"
    /\ canvas.called = <<"n_carriage">>
    /\ home.carriageX = 680

----------------------------------------------------------------------------
(* The stepper of the mechanical advantage.                                 *)

\* C27: maCount stays within 1..6; a click on '+' adds one to it unless it is
\* 6, a click on '-' takes one from it unless it is 1, and then it is left as
\* it is; a reset makes it 1
C27_MaCountInRange ==
    /\ [](home.maCount \in 1..6)
    /\ [][StepUp =>
             home'.maCount = IF home.maCount = 6 THEN 6 ELSE home.maCount + 1]_vars
    /\ [][StepDown =>
             home'.maCount = IF home.maCount = 1 THEN 1 ELSE home.maCount - 1]_vars
    /\ [][handleReset => home'.maCount = 1]_vars

\* the stepper has been clicked up to 6:1, where '+' changes nothing
C27_Witness ==
    /\ Settled
    /\ home.preset = "SIMPLE"
    /\ home.maCount = 6
    /\ segments = generateSystem(6).segments

----------------------------------------------------------------------------
(* What a call with a targetMA depends on.                                  *)

\* the nodes of another call with the same segments: every node elsewhere,
\* and the free pulleys made loads
Elsewhere(ns) ==
    [c \in DOMAIN ns |->
        [ns[c] EXCEPT !.position = <<@[2] + 10 * c, @[1]>>,
                      !.type = IF @ = "PULLEY_FREE" THEN "LOAD" ELSE @]]

\* the efficiency of that other call
OtherEfficiency == IF efficiency = FOne THEN FDiv(FromInt(9), FromInt(10)) ELSE FOne

\* what that other call returns: same segments, loadWeight and targetMA,
\* other node positions, node types and efficiency, and no rope
VariedCall ==
    solveEquilibrium(Elsewhere(nodes), segments, <<>>, loadWeight,
                     OtherEfficiency, targetMA)

\* a call with at least one segment and a loadWeight other than 0 returned
ReturnedForLoad ==
    /\ pc = "done"
    /\ Len(segments) > 0
    /\ loadWeight # FZero
    /\ result.status = "returned"

\* C28 as stated: with a targetMA supplied (0 included), tensions and stats
\* are those of the other call
C28_DependsOnlyOnIds ==
    ReturnedForLoad /\ targetMA # <<>> /\ VariedCall.status = "returned" =>
        /\ result.tensions = VariedCall.tensions
        /\ result.stats = VariedCall.stats

\* C28: with a targetMA other than 0, at least one segment and a loadWeight
\* other than 0, two calls that return and differ in node positions, node
\* types, ropes and efficiency return the same tensions, haulTension, loadRef
\* and idealMA; effectiveMA is idealMA for an efficiency within 0.01 of 1 and
\* loadWeight / haulTension otherwise
C28_OverrideDependsOnlyOnIds ==
    ReturnedForLoad /\ Truthy(targetMA) /\ VariedCall.status = "returned" =>
        /\ result.tensions = VariedCall.tensions
        /\ DOMAIN result.tensions = {segments[c].id : c \in 1..Len(segments)}
        /\ result.stats.haulTension = VariedCall.stats.haulTension
        /\ result.stats.loadRef = VariedCall.stats.loadRef
        /\ result.stats.idealMA = VariedCall.stats.idealMA
        /\ result.stats.effectiveMA =
               IF FLt(FAbs(FSub(efficiency, FOne)), Hundredth)
               THEN result.stats.idealMA
               ELSE FDiv(loadWeight, result.stats.haulTension)

\* the 2:1 system with its haul node dragged, called with friction and a
\* targetMA of 2, returned 50 for every segment, as the other call does
C28_Witness ==
    /\ ReturnedForLoad
    /\ targetMA = <<2>>
    /\ segments = generateSystem(2).segments
    /\ nodes # generateSystem(2).nodes
    /\ efficiency # FOne
    /\ loadWeight = FromInt(100)
    /\ \A id \in DOMAIN result.tensions : result.tensions[id] = FromInt(50)
    /\ VariedCall.status = "returned"
    /\ VariedCall.tensions = result.tensions

----------------------------------------------------------------------------
(* The keys of the maps returned.                                           *)

\* C29: a call that returns gives tensions exactly one entry for each
\* segment id and no other key, with or without targetMA, and, when there is
\* a segment, nodeForces exactly one entry for each node id, the anchors
\* included
C29_KeysOfMaps ==
    pc = "done" /\ result.status = "returned" =>
        /\ DOMAIN result.tensions = {segments[c].id : c \in 1..Len(segments)}
        /\ Len(segments) > 0 =>
               DOMAIN result.nodeForces = {nodes[c].id : c \in 1..Len(nodes)}

\* the 2:1 system returned with a targetMA: two tensions, and forces for
\* its three nodes, the anchor among them
C29_Witness ==
    /\ pc = "done"
    /\ result.status = "returned"
    /\ targetMA = <<2>>
    /\ segments = generateSystem(2).segments
    /\ DOMAIN result.tensions = {"s_0", "s_haul"}
    /\ DOMAIN result.nodeForces = {"n_anchor", "n_load", "n_haul"}

----------------------------------------------------------------------------
(* The two assemblies of the system.                                        *)

\* C30: the arrays A, B and Weights that solveEquilibrium assembles in line
\* are those buildSystem returns for the same nodes, segments, ropes and
\* loadWeight and the efficiency the in-line assembly uses; and a call
\* without targetMA and with efficiency 1.0 that returns has effectiveMA
\* equal to idealMA
C30_SameSystem ==
    pc = "done" /\ built.inline.assembled =>
        /\ built.inline =
               SystemOf(buildSystem(nodes, segments, ropes, loadWeight,
                                    EffectiveEfficiency(efficiency, targetMA)))
        /\ result.status = "returned" /\ ~Truthy(targetMA) /\ efficiency = FOne =>
               result.stats.effectiveMA = result.stats.idealMA

\* the 2:1 system, called without targetMA and without friction, assembled
\* in line the arrays buildSystem gave the ideal solve, and returned
\* effectiveMA = idealMA, a number that is not 0
C30_Witness ==
    /\ pc = "done"
    /\ segments = generateSystem(2).segments
    /\ targetMA = <<>>
    /\ efficiency = FOne
    /\ built.inline.assembled
    /\ built.ideal = built.inline
    /\ result.status = "returned"
    /\ FGt(result.stats.idealMA, FZero)
    /\ result.stats.effectiveMA = result.stats.idealMA

====
